---- MODULE Spec2Model ----
(***************************************************************************)
(* The agent orchestration core of nestjs-ai-agent-boilerplate:            *)
(*   - ChatService.chat over the DefaultGraph (call_model <-> tools) with  *)
(*     its MemorySaver checkpointer              (specification SpecChat)  *)
(*   - AgentService.chat: history reload from the conversations table, the *)
(*     ReAct agent stream loop, the save          (specification SpecAgent)*)
(*   - the AdaptiveRAGGraph (analyze_query -> retrieve_context ->          *)
(*     call_model) with its module-level router  (specification SpecRoute) *)
(* The language model, the tools and the database are the environment:     *)
(* their answers are drawn from bounded sets.                              *)
(***************************************************************************)
EXTENDS Integers, Sequences, FiniteSets, TLC

VARIABLES
    env,               \* how the language model and the tools behave in this run
    turns,             \* number of chat requests issued so far
    budget,            \* model invocations the run may still make
    faults,            \* failures (model, database) the environment may still produce
    nextId,            \* next tool-call id the model provider hands out
    memory,            \* default.graph.ts: MemorySaver, latest state per thread_id
    chat,              \* ChatService.chat: the request being served
    conversations,     \* AgentService: rows of the 'conversations' table
    agentCheckpointer, \* AgentService: MemorySaver of the ReAct agent
    agent,             \* AgentService.chat: the request being served
    currentRouter,     \* rag-route.graph.ts: module-level router result
    routeMemory,       \* rag-route.graph.ts: MemorySaver, latest state per thread_id
    route,             \* rag-route graph: the runs in flight, one per slot
    requests,          \* AgentService.chat: calls served concurrently, one per slot
    invocation,        \* a tool invocation: the call, and what came of it
    prompt,            \* callModel: the configured template and the prompt sent
    httpResponse,      \* ChatService.chat: the text written to the HTTP response
    executor,          \* javascript_executor: the call being served
    search             \* vector_search: the call being served

vars == <<env, turns, budget, faults, nextId, memory, chat, conversations, agentCheckpointer,
          agent, currentRouter, routeMemory, route, requests, invocation, prompt, httpResponse, executor, search>>

chatVars  == <<memory, chat>>
agentVars == <<conversations, agentCheckpointer, agent>>
routeVars == <<currentRouter, routeMemory, route>>
unitVars  == <<requests, invocation, prompt, httpResponse, executor, search>>

(***************************************************************************)
(* Bounds of the model.                                                    *)
(***************************************************************************)
MaxTurns == 2          \* chat requests per run
MaxCalls == 2          \* tool calls the model puts in one response
MaxModelCalls == 14    \* model invocations per run of ChatService, over all its turns
MaxAgentModelCalls == 6 \* model invocations per run of AgentService, over all its turns
MaxFaults == 1         \* failures of the model or the database per run

Threads == {"t1", "t2"}
AgentThreads == {"t1", ""}        \* "": the request carries no threadId
AgentThreadKeys == {"t1", "default"}
UserTexts == {"q"}

(***************************************************************************)
(* Messages (@langchain/core/messages as the code constructs them).        *)
(* tool_call_id 0 stands for the empty string.                             *)
(***************************************************************************)
Message(role, content, tool_calls, tool_call_id, name) ==
    [role |-> role, content |-> content, tool_calls |-> tool_calls,
     tool_call_id |-> tool_call_id, name |-> name]

HumanMessage(content) == Message("user", content, <<>>, 0, "")
SystemMessage(content) == Message("system", content, <<>>, 0, "")
AIMessage(content, tool_calls) == Message("assistant", content, tool_calls, 0, "")
ToolMessage(content, tool_call_id, name) == Message("tool", content, <<>>, tool_call_id, name)

Last(s) == s[Len(s)]

\* tools.ts: the tools of the DefaultGraph's ToolNode and bound to its model
TOOLS == {"unsplash_image_search", "google_maps_places_finder", "table_tool",
          "javascript_executor", "web_scraper"}

\* The model's response to one invocation: its text and the tool calls it requests.
\* wantTools: the model asks for tools; boundTools: the tools bound to it.
\* A model with no tools bound cannot request any.
ToolCalls(boundTools, wantTools) ==
    IF wantTools /\ env.tool \in boundTools
    THEN [i \in 1..env.calls |-> [id |-> nextId + i - 1, name |-> env.tool]]
    ELSE <<>>

\* ToolNode: one ToolMessage per requested call, in request order; a tool that
\* throws (or is not registered) yields an error message, not an exception.
\* env.result is what the tool's function does: "result" (a payload), "" (an
\* empty payload) or "Error" (it throws).
ToolOutput(call, registered) ==
    IF call.name \in registered
    THEN ToolMessage(env.result, call.id, call.name)
    ELSE ToolMessage("Error", call.id, call.name)

ToolNode(calls, registered) ==
    [i \in 1..Len(calls) |-> ToolOutput(calls[i], registered)]

\* order in which the tool runs of one cycle complete
Completion(n) == IF env.reversed THEN [i \in 1..n |-> n + 1 - i] ELSE [i \in 1..n |-> i]

(***************************************************************************)
(* default.graph.ts                                                        *)
(***************************************************************************)
\* routeModelOutput with the comparison off by one (length > 1)
routeModelOutput_OffByOne(messages) ==
    IF Len(Last(messages).tool_calls) > 1 THEN "tools" ELSE "END"

\* default.graph.ts:24-36. (tool_calls?.length || 0 > 0) parses as
\* length || (0 > 0): truthy exactly when length is a non-zero number.
routeModelOutput(messages) ==
    LET lastMessage == Last(messages)
        length == Len(lastMessage.tool_calls)
        truthy == IF length # 0 THEN TRUE ELSE (0 > 0)
    IN  IF truthy THEN "tools" ELSE "END"

\* Supersteps a run may execute before the library raises GraphRecursionError.
\* chat.service.ts passes no recursionLimit: the library default applies.
DefaultRecursionLimit == 25

(***************************************************************************)
(* ChatService.chat (chat.service.ts:35-129)                               *)
(***************************************************************************)
Event(type, data) == [type |-> type, data |-> data]

\* keys of the `data` object of a streamEvents v2 event
DataKeys(event) ==
    CASE event = "on_chat_model_stream" -> {"chunk"}
      [] event = "on_tool_start" -> {"input"}
      [] event = "on_tool_end" -> {"output", "input"}
      [] OTHER -> {}

\* chat.service.ts:61-104: the frames written for one stream event
ChatFrames(event, payload) ==
    CASE event = "on_chat_model_stream" ->
           IF "chunk" \in DataKeys(event) /\ payload # "" THEN <<Event("message", payload)>> ELSE <<>>
      [] event = "on_tool_start" ->
           IF "tool_name" \in DataKeys(event) THEN <<Event("tool_start", payload)>> ELSE <<>>
      [] event = "on_tool_end" ->
           IF "output" \in DataKeys(event) THEN <<Event("tool", payload)>> ELSE <<>>
      [] OTHER -> <<>>

\* chat.service.ts:105-107: the completion frame after the event loop
ChatDoneFrames == <<Event("done", "done")>>

\* chat.service.ts:108-121: the catch block
ChatCatchFrames(errorMessage) == <<Event("error", errorMessage)>>

IdleChat == [pc |-> "idle", threadId |-> "t1", step |-> 0, modelCalls |-> 0,
             allTools |-> TRUE, connected |-> TRUE,
             events |-> <<>>, ended |-> FALSE, failed |-> FALSE, capped |-> FALSE,
             before |-> <<>>, from |-> "idle"]

\* chat.service.ts:108-128: catch, then finally
ChatFail(c, frames, errorMessage) ==
    [c EXCEPT !.pc = "closed", !.from = c.pc,
              !.events = c.events \o frames \o
                         (IF c.ended THEN <<>> ELSE ChatCatchFrames(errorMessage)),
              !.ended = TRUE, !.failed = TRUE]

\* chat.service.ts:105-107 and 122-128: the loop ended, done, then finally
ChatFinish(c, frames) ==
    [c EXCEPT !.pc = "closed", !.from = c.pc,
              !.events = c.events \o frames \o ChatDoneFrames,
              !.ended = TRUE]

\* every request on the thread of the first one
ChatThreadKey_Shared(threadId) == "t1"

\* chat.service.ts:53-56: configurable.thread_id, the key of the checkpointer
ChatThreadKey(threadId) == threadId

\* chat.service.ts:35-59 up to the graph's input checkpoint
Chat(message, threadId) ==
    /\ chat.pc \in {"idle", "closed"}
    /\ turns < MaxTurns
    /\ turns' = turns + 1
    /\ memory' = [memory EXCEPT ![ChatThreadKey(threadId)] = @ \o <<HumanMessage(message)>>]
    /\ chat' = [IdleChat EXCEPT !.pc = "call_model", !.threadId = threadId,
                                !.before = memory[ChatThreadKey(threadId)],
                                !.from = "START"]
    /\ UNCHANGED <<env, faults, budget, nextId>>
    /\ UNCHANGED agentVars /\ UNCHANGED routeVars /\ UNCHANGED unitVars

\* default.graph.ts:10-21 throws (model, configuration or provider failure),
\* possibly after some text was streamed
ChatModelThrows(partial) ==
    /\ chat.pc = "call_model"
    /\ budget > 0 /\ faults > 0
    /\ budget' = budget - 1
    /\ faults' = faults - 1
    /\ chat' = ChatFail([chat EXCEPT !.modelCalls = @ + 1, !.allTools = FALSE],
                        ChatFrames("on_chat_model_stream", partial), "ModelUnavailable")
    /\ UNCHANGED <<env, turns, nextId, memory>>
    /\ UNCHANGED agentVars /\ UNCHANGED routeVars /\ UNCHANGED unitVars

\* default.graph.ts:10-21 returns a response; then routeModelOutput (39-55)
ChatCallModel(content, wantTools) ==
    /\ chat.pc = "call_model"
    /\ budget > 0
    /\ budget' = budget - 1
    /\ LET calls == ToolCalls(TOOLS, wantTools)
           response == AIMessage(content, calls)
           messages == memory[ChatThreadKey(chat.threadId)] \o <<response>>
           frames == ChatFrames("on_chat_model_stream", content)
           c == [chat EXCEPT !.step = @ + 1, !.modelCalls = @ + 1,
                             !.allTools = @ /\ Len(calls) > 0]
       IN  /\ memory' = [memory EXCEPT ![ChatThreadKey(chat.threadId)] = messages]
           /\ nextId' = nextId + Len(calls)
           /\ chat' = IF routeModelOutput(messages) = "END" THEN ChatFinish(c, frames)
                      ELSE IF c.step >= DefaultRecursionLimit
                           THEN ChatFail([c EXCEPT !.capped = TRUE], frames,
                                         "GraphRecursionError")
                           ELSE [c EXCEPT !.pc = "tools", !.from = chat.pc,
                                          !.events = @ \o frames]
    /\ UNCHANGED <<env, faults, turns>>
    /\ UNCHANGED agentVars /\ UNCHANGED routeVars /\ UNCHANGED unitVars

\* the frames of the tool runs of one cycle, in completion order
ChatToolFrames(outputs) ==
    LET order == Completion(Len(outputs))
        one(i) == LET m == outputs[order[i]]
                  IN  ChatFrames("on_tool_start", m.name) \o
                      ChatFrames(IF env.result = "Error" THEN "on_tool_error" ELSE "on_tool_end",
                                 m.content)
        F[i \in 0..Len(outputs)] == IF i = 0 THEN <<>> ELSE F[i - 1] \o one(i)
    IN  F[Len(outputs)]

\* default.graph.ts:42, 55: the ToolNode, then the edge back to call_model.
\* The node awaits every tool run of the cycle: it completes when they all have
\* returned or thrown, and not at all while one of them hangs.
ChatTools ==
    /\ chat.pc = "tools"
    /\ env.result # "hangs"
    /\ LET outputs == ToolNode(Last(memory[ChatThreadKey(chat.threadId)]).tool_calls, TOOLS)
           frames == ChatToolFrames(outputs)
           c == [chat EXCEPT !.step = @ + 1]
       IN  /\ memory' = [memory EXCEPT ![ChatThreadKey(chat.threadId)] = @ \o outputs]
           /\ chat' = IF c.step >= DefaultRecursionLimit
                      THEN ChatFail([c EXCEPT !.capped = TRUE], frames,
                                    "GraphRecursionError")
                      ELSE [c EXCEPT !.pc = "call_model", !.from = chat.pc,
                                     !.events = @ \o frames]
    /\ UNCHANGED <<env, faults, turns, budget, nextId>>
    /\ UNCHANGED agentVars /\ UNCHANGED routeVars /\ UNCHANGED unitVars

\* the client closes the connection while its turn is running; nothing in
\* chat.service.ts:35-129 listens for it or hands the graph an abort signal
ClientDisconnects ==
    /\ chat.pc \in {"call_model", "tools"}
    /\ chat.connected
    /\ chat' = [chat EXCEPT !.connected = FALSE]
    /\ UNCHANGED <<env, turns, budget, faults, nextId, memory>>
    /\ UNCHANGED agentVars /\ UNCHANGED routeVars /\ UNCHANGED unitVars

(***************************************************************************)
(* AgentService.chat (unnamed/part_007:178-460)                            *)
(***************************************************************************)
\* part_007:153-163: the tools handed to createReactAgent. The constructor
\* builds the two tool instances in commented-out code and ships the empty
\* list; env.agentTools is one of the two, fixed for the run.
AgentToolSets == {{}, {"vector_search", "public_tender_search"}}

\* part_007:124-130
systemMessage == SystemMessage("system prompt")

\* part_007:246-250: config.recursion_limit
AgentRecursionLimit == 10

\* part_007:248: configurable.thread_id
ThreadKey(threadId) == IF threadId # "" THEN threadId ELSE "default"

\* a row as the code builds it: created_at 0 is unset, the table fills it in
Row(thread_id, role, content, name, tool_call_id) ==
    [thread_id |-> thread_id, role |-> role, content |-> content, name |-> name,
     tool_call_id |-> tool_call_id, created_at |-> 0]

\* part_007:420-422: insert(itemsToInsert); the rows of one statement get the
\* table's default created_at, the time of the statement
Insert(table, items, now) ==
    table \o [i \in 1..Len(items) |-> [items[i] EXCEPT !.created_at = now]]

\* the time of the table's clock: requests are served one at a time, the
\* insert of the n-th request happens at time n
Now == turns

\* order('created_at', {ascending: true}) from a given time on; rows of equal
\* created_at keep the order of the table
RECURSIVE OrderByCreatedAt(_, _)
OrderByCreatedAt(rows, from) ==
    IF from > Now THEN <<>>
    ELSE SelectSeq(rows, LAMBDA r : r.created_at = from) \o OrderByCreatedAt(rows, from + 1)

Reverse(s) == [i \in 1..Len(s) |-> s[Len(s) + 1 - i]]

\* the select with the order descending
SelectThread_Descending(threadId) ==
    Reverse(OrderByCreatedAt(SelectSeq(conversations, LAMBDA r : r.thread_id = threadId), 0))

\* part_007:200-204: select * where thread_id = threadId order by created_at
SelectThread(threadId) ==
    OrderByCreatedAt(SelectSeq(conversations, LAMBDA r : r.thread_id = threadId), 0)

\* part_007:210-233: one row of the table as a message
HistoryMessage(item) ==
    CASE item.role = "system" -> SystemMessage(item.content)
      [] item.role = "user" -> HumanMessage(item.content)
      [] item.role = "assistant" -> AIMessage(item.content, <<>>)
      [] item.role = "tool" -> ToolMessage(item.content, item.tool_call_id, item.name)

\* part_007:209-234
LoadHistory(data) == [i \in 1..Len(data) |-> HistoryMessage(data[i])]

\* part_007:218-226: the tool messages of the loaded history are pushed onto
\* toolCallHistory while the history is mapped
HistoryToolCalls(history) == SelectSeq(history, LAMBDA m : m.role = "tool")

\* the system message put in front of every history
WithSystemMessage_Always(history) == <<systemMessage>> \o history

\* part_007:238-241
WithSystemMessage(history) ==
    IF Len(history) = 0 \/ history[1].role # "system"
    THEN <<systemMessage>> \o history
    ELSE history

\* every tool's result relayed under the generic type
ToolEventType_Generic(name) == "tool_end"

\* part_007:281-291
ToolEventType(name) ==
    IF name = "vector_search" THEN "vector_search"
    ELSE IF name = "public_tender_search" THEN "public_tender_list"
    ELSE "tool_end"

\* part_007:271-301: what one tools chunk adds to toolCallHistory
ChunkToolCalls(messages) ==
    SelectSeq(messages, LAMBDA m : m.name # "" /\ m.content # "")

\* part_007:271-301: the frames written for one tools chunk
ChunkToolFrames(messages) ==
    LET kept == ChunkToolCalls(messages)
    IN  [i \in 1..Len(kept) |-> Event(ToolEventType(kept[i].name), kept[i].content)]

\* part_007:310-326: finalAssistantMessage after one agent chunk
ChunkFinalMessage(final, messages) ==
    LET F[i \in 0..Len(messages)] ==
            IF i = 0 THEN final
            ELSE IF messages[i].content # "" THEN messages[i].content ELSE F[i - 1]
    IN  F[Len(messages)]

\* part_007:310-326: the frames written for one agent chunk
ChunkAgentFrames(messages) ==
    LET kept == SelectSeq(messages, LAMBDA m : m.content # "")
    IN  [i \in 1..Len(kept) |-> Event("message", kept[i].content)]

\* part_007:386-413
MessagesToSave(message, toolCallHistory, finalAssistantMessage) ==
    <<[role |-> "user", content |-> message, name |-> "", tool_call_id |-> 0]>>
    \o [i \in 1..Len(toolCallHistory) |->
          [role |-> "tool", content |-> toolCallHistory[i].content,
           name |-> toolCallHistory[i].name,
           tool_call_id |-> toolCallHistory[i].tool_call_id]]
    \o (IF finalAssistantMessage # ""
        THEN <<[role |-> "assistant", content |-> finalAssistantMessage,
                name |-> "", tool_call_id |-> 0]>>
        ELSE <<>>)

\* part_007:415-419
ItemsToInsert(messagesToSave, threadId) ==
    [i \in 1..Len(messagesToSave) |->
        Row(threadId, messagesToSave[i].role, messagesToSave[i].content,
            messagesToSave[i].name, messagesToSave[i].tool_call_id)]

\* part_007:430-442
AgentDoneFrames == <<Event("done", "totalTimeMs")>>

\* part_007:443-458: the catch block
AgentCatchFrames(errorMessage) ==
    <<Event("error", errorMessage), Event("done", "totalTimeMs")>>

\* a failed insert reported to the client as an error event
AgentInsertErrorFrames_Reported == <<Event("error", "insertError")>>

\* part_007:424-426: a failed insert is logged, nothing is written to the stream
AgentInsertErrorFrames == <<>>

IdleAgent == [pc |-> "idle", threadId |-> "", message |-> "", step |-> 0,
              modelCalls |-> 0, toolCalls |-> <<>>, events |-> <<>>, ended |-> FALSE,
              failed |-> FALSE, capped |-> FALSE, insertError |-> FALSE,
              toolCallHistory |-> <<>>, finalAssistantMessage |-> "",
              before |-> <<>>, checkpointBefore |-> <<>>, data |-> <<>>,
              context |-> <<>>, returned |-> FALSE, afterEnd |-> <<>>]

\* part_007:443-459
AgentFail(a, frames, errorMessage) ==
    [a EXCEPT !.pc = "closed", !.events = a.events \o frames \o AgentCatchFrames(errorMessage),
              !.ended = TRUE, !.failed = TRUE]

\* part_007:430-442
AgentFinish(a, frames) ==
    [a EXCEPT !.pc = "closed", !.events = a.events \o frames \o AgentDoneFrames,
              !.ended = TRUE]

\* the completion frame written when the stream is exhausted, before the save
AgentEndOfStream_DoneBeforeSave(a, frames) ==
    IF a.threadId # ""
    THEN [a EXCEPT !.pc = "save", !.events = a.events \o frames \o AgentDoneFrames]
    ELSE AgentFinish(a, frames)

\* part_007:382-385: the stream is exhausted; save when there is a thread
AgentEndOfStream(a, frames) ==
    IF a.threadId # ""
    THEN [a EXCEPT !.pc = "save", !.events = a.events \o frames]
    ELSE AgentFinish(a, frames)

\* part_007:178-197: up to the first await
AgentChat(message, threadId) ==
    /\ agent.pc \in {"idle", "closed"}
    /\ turns < MaxTurns
    /\ turns' = turns + 1
    /\ agent' = [IdleAgent EXCEPT !.pc = "load", !.threadId = threadId,
                                  !.message = message,
                                  !.before = conversations,
                                  !.checkpointBefore = agentCheckpointer[ThreadKey(threadId)]]
    /\ UNCHANGED <<env, faults, budget, nextId, conversations, agentCheckpointer>>
    /\ UNCHANGED chatVars /\ UNCHANGED routeVars /\ UNCHANGED unitVars

\* part_007:198-256: the history fetch returns (fetchError: it returns an
\* error, which is logged), the input is built and handed to the graph,
\* whose checkpointer appends it to the state of the thread
AgentLoad(fetchError) ==
    /\ agent.pc = "load"
    /\ fetchError => (faults > 0 /\ agent.threadId # "")
    /\ faults' = IF fetchError THEN faults - 1 ELSE faults
    /\ LET data == IF agent.threadId # "" /\ ~fetchError
                   THEN SelectThread(agent.threadId) ELSE <<>>
           loaded == LoadHistory(data)
           history == WithSystemMessage(loaded)
           input == history \o <<HumanMessage(agent.message)>>
           key == ThreadKey(agent.threadId)
       IN  /\ agentCheckpointer' = [agentCheckpointer EXCEPT ![key] = @ \o input]
           /\ agent' = [agent EXCEPT !.pc = "agent",
                                     !.data = data,
                                     !.toolCallHistory = HistoryToolCalls(loaded),
                                     !.context = input]
    /\ UNCHANGED <<env, turns, budget, nextId, conversations>>
    /\ UNCHANGED chatVars /\ UNCHANGED routeVars /\ UNCHANGED unitVars

\* the agent node throws (the model invocation fails)
AgentModelThrows ==
    /\ agent.pc = "agent"
    /\ budget > 0 /\ faults > 0
    /\ budget' = budget - 1
    /\ faults' = faults - 1
    /\ agent' = AgentFail([agent EXCEPT !.modelCalls = @ + 1], <<>>, "ModelUnavailable")
    /\ UNCHANGED <<env, turns, nextId, conversations, agentCheckpointer>>
    /\ UNCHANGED chatVars /\ UNCHANGED routeVars /\ UNCHANGED unitVars

\* the agent node returns a response: chunk {agent: {messages: [response]}}
\* (part_007:304-327), then the agent's edge to tools or to the end
AgentModel(content, wantTools) ==
    /\ agent.pc = "agent"
    /\ wantTools => env.tool \in env.agentTools
    /\ budget > 0
    /\ budget' = budget - 1
    /\ LET calls == ToolCalls(env.agentTools, wantTools)
           response == AIMessage(content, calls)
           key == ThreadKey(agent.threadId)
           frames == ChunkAgentFrames(<<response>>)
           a == [agent EXCEPT !.step = @ + 1, !.modelCalls = @ + 1,
                              !.finalAssistantMessage = ChunkFinalMessage(@, <<response>>)]
       IN  /\ agentCheckpointer' = [agentCheckpointer EXCEPT ![key] = @ \o <<response>>]
           /\ nextId' = nextId + Len(calls)
           /\ agent' = IF Len(calls) = 0 THEN AgentEndOfStream(a, frames)
                       ELSE IF a.step >= AgentRecursionLimit
                            THEN AgentFail([a EXCEPT !.capped = TRUE], frames,
                                           "GraphRecursionError")
                            ELSE [a EXCEPT !.pc = "tools", !.events = @ \o frames]
    /\ UNCHANGED <<env, faults, turns, conversations>>
    /\ UNCHANGED chatVars /\ UNCHANGED routeVars /\ UNCHANGED unitVars

\* the tools node: chunk {tools: {messages: [...]}} (part_007:266-302)
AgentTools ==
    /\ agent.pc = "tools"
    /\ LET key == ThreadKey(agent.threadId)
           requested == Last(agentCheckpointer[key]).tool_calls
           outputs == ToolNode(requested, env.agentTools)
           frames == ChunkToolFrames(outputs)
           a == [agent EXCEPT !.step = @ + 1,
                              !.toolCalls = @ \o requested,
                              !.toolCallHistory = @ \o ChunkToolCalls(outputs)]
       IN  /\ agentCheckpointer' = [agentCheckpointer EXCEPT ![key] = @ \o outputs]
           /\ agent' = IF a.step >= AgentRecursionLimit
                       THEN AgentFail([a EXCEPT !.capped = TRUE], frames,
                                      "GraphRecursionError")
                       ELSE [a EXCEPT !.pc = "agent", !.events = @ \o frames]
    /\ UNCHANGED <<env, faults, turns, budget, nextId, conversations>>
    /\ UNCHANGED chatVars /\ UNCHANGED routeVars /\ UNCHANGED unitVars

\* part_007:384-442: the insert returns (insertError: it returns an error)
AgentSave(insertError) ==
    /\ agent.pc = "save"
    /\ insertError => faults > 0
    /\ faults' = IF insertError THEN faults - 1 ELSE faults
    /\ LET messagesToSave == MessagesToSave(agent.message, agent.toolCallHistory,
                                            agent.finalAssistantMessage)
           itemsToInsert == ItemsToInsert(messagesToSave, agent.threadId)
       IN  /\ conversations' = IF insertError THEN conversations
                               ELSE Insert(conversations, itemsToInsert, Now)
           /\ agent' = AgentFinish([agent EXCEPT !.insertError = insertError],
                                   IF insertError THEN AgentInsertErrorFrames ELSE <<>>)
    /\ UNCHANGED <<env, turns, budget, nextId, agentCheckpointer>>
    /\ UNCHANGED chatVars /\ UNCHANGED routeVars /\ UNCHANGED unitVars

\* express: res.json(body) on the response: on one that has ended the call is
\* a write of headers and body after the end (it raises ERR_HTTP_HEADERS_SENT)
ResJson(a, body) ==
    IF a.ended THEN [a EXCEPT !.afterEnd = Append(@, body)]
    ELSE [a EXCEPT !.events = Append(@, Event("json", body)), !.ended = TRUE]

\* part_004:17-26: AgentController.chat after its await: agentService.chat
\* has resolved (with no value), the controller returns res.json(result)
AgentControllerReturns ==
    /\ agent.pc = "closed"
    /\ ~agent.returned
    /\ agent' = [ResJson(agent, "undefined") EXCEPT !.returned = TRUE]
    /\ UNCHANGED <<env, faults, turns, budget, nextId, conversations, agentCheckpointer>>
    /\ UNCHANGED chatVars /\ UNCHANGED routeVars /\ UNCHANGED unitVars

(***************************************************************************)
(* rag-route.graph.ts: the AdaptiveRAGGraph.  Edges (145-157):             *)
(* START -> analyze_query -> retrieve_context -> call_model -> tools | END,*)
(* tools -> analyze_query.  callModel (114-128) binds no tools to the      *)
(* model, so no response carries a tool call and the tools node is never   *)
(* entered.  Each node is one superstep; between two supersteps of a run   *)
(* the runs of other requests may execute.                                 *)
(***************************************************************************)
\* the requests the server is serving at one time
RouteSlots == {1, 2}

\* rag-route.graph.ts:12-15: RouterSchema.type
RouterTypes == {"retrieval", "general", "tool"}

\* tools bound to the model by callModel (rag-route.graph.ts:114-128): none
RouteBoundTools == {}

IdleRoute == [pc |-> "idle", threadId |-> "t1", messages |-> <<>>,
              own |-> "none", read |-> "none", failed |-> "no",
              retrieved |-> "no", augmented |-> FALSE]

\* rag-route.graph.ts:21-58: the value analyzeQuery leaves in currentRouter
\* when the classification call answers modelResponse
analyzeQuery(messages, modelResponse) ==
    IF Len(messages) = 0 THEN "general"
    ELSE IF Last(messages).role # "user" THEN "general"
    ELSE modelResponse

\* retrieveRelevantDocs without its look at the last message
ShouldRetrieve_AnyLastMessage(router, messages) == router = "retrieval"

\* rag-route.graph.ts:61-79: whether retrieveRelevantDocs goes on to query
\* the retriever, given the router value it reads
ShouldRetrieve(router, messages) ==
    /\ router = "retrieval"
    /\ Len(messages) # 0
    /\ Last(messages).role = "user"

\* retrieveRelevantDocs returning a context message for zero documents too
retrieveRelevantDocs_EmptyContext(result) ==
    IF result \in {"docs", "none"} THEN <<SystemMessage("context")>> ELSE <<>>

\* rag-route.graph.ts:87-111: the update retrieveRelevantDocs returns
\* (result: "docs", "none" for zero documents, "throws")
retrieveRelevantDocs(result) ==
    IF result = "docs" THEN <<SystemMessage("context")>> ELSE <<>>

\* a request starts a run of the graph: the input is appended to the thread's
\* checkpointed state
RouteStart(s, message, threadId) ==
    /\ route[s].pc \in {"idle", "done", "error"}
    /\ turns < MaxTurns
    /\ turns' = turns + 1
    /\ LET messages == routeMemory[threadId] \o <<HumanMessage(message)>>
       IN  /\ route' = [route EXCEPT ![s] = [IdleRoute EXCEPT !.pc = "analyze_query",
                                                !.threadId = threadId,
                                                !.messages = messages]]
           /\ routeMemory' = [routeMemory EXCEPT ![threadId] = messages]
    /\ UNCHANGED <<env, faults, budget, nextId, currentRouter>>
    /\ UNCHANGED chatVars /\ UNCHANGED agentVars /\ UNCHANGED unitVars

\* analyzeQuery returning without writing the module's router
AnalyzeQuery_RouterUnwritten(s, modelResponse) ==
    /\ route[s].pc = "analyze_query"
    /\ LET type == analyzeQuery(route[s].messages, modelResponse)
       IN  route' = [route EXCEPT ![s].pc = "retrieve_context", ![s].own = type]
    /\ UNCHANGED <<env, faults, turns, budget, nextId, routeMemory, currentRouter>>
    /\ UNCHANGED chatVars /\ UNCHANGED agentVars /\ UNCHANGED unitVars

\* rag-route.graph.ts:21-58: the classification call returns modelResponse
AnalyzeQuery(s, modelResponse) ==
    /\ route[s].pc = "analyze_query"
    /\ LET type == analyzeQuery(route[s].messages, modelResponse)
       IN  /\ currentRouter' = type
           /\ route' = [route EXCEPT ![s].pc = "retrieve_context", ![s].own = type]
    /\ UNCHANGED <<env, faults, turns, budget, nextId, routeMemory>>
    /\ UNCHANGED chatVars /\ UNCHANGED agentVars /\ UNCHANGED unitVars

\* rag-route.graph.ts:50-52: the classification call throws (kind "model"), or
\* its structured output does not parse (kind "malformed"); nothing catches it
AnalyzeQueryThrows(s, kind) ==
    /\ route[s].pc = "analyze_query"
    /\ Len(route[s].messages) # 0 /\ Last(route[s].messages).role = "user"
    /\ route' = [route EXCEPT ![s].pc = "error", ![s].failed = kind]
    /\ UNCHANGED <<env, faults, turns, budget, nextId, currentRouter, routeMemory>>
    /\ UNCHANGED chatVars /\ UNCHANGED agentVars /\ UNCHANGED unitVars

\* rag-route.graph.ts:61-79: retrieveRelevantDocs reads currentRouter
RetrieveContext(s) ==
    /\ route[s].pc = "retrieve_context"
    /\ route' = [route EXCEPT ![s].read = currentRouter,
                              ![s].pc = IF ShouldRetrieve(currentRouter, route[s].messages)
                                        THEN "retrieving" ELSE "call_model"]
    /\ UNCHANGED <<env, faults, turns, budget, nextId, currentRouter, routeMemory>>
    /\ UNCHANGED chatVars /\ UNCHANGED agentVars /\ UNCHANGED unitVars

\* retrieveRelevantDocs without its try/catch: a failure of the retriever
\* ends the run
RetrieveDone_Uncaught(s, result) ==
    /\ route[s].pc = "retrieving"
    /\ LET update == retrieveRelevantDocs(result)
           messages == route[s].messages \o update
       IN  /\ route' = [route EXCEPT ![s].pc = IF result = "throws" THEN "error"
                                               ELSE "call_model",
                                     ![s].messages = messages,
                                     ![s].retrieved = result,
                                     ![s].failed = IF result = "throws" THEN "retrieve_context"
                                                   ELSE @,
                                     ![s].augmented = (update # <<>>)]
           /\ routeMemory' = [routeMemory EXCEPT ![route[s].threadId] = messages]
    /\ UNCHANGED <<env, faults, turns, budget, nextId, currentRouter>>
    /\ UNCHANGED chatVars /\ UNCHANGED agentVars /\ UNCHANGED unitVars

\* rag-route.graph.ts:81-111: the retriever answers
RetrieveDone(s, result) ==
    /\ route[s].pc = "retrieving"
    /\ LET update == retrieveRelevantDocs(result)
           messages == route[s].messages \o update
       IN  /\ route' = [route EXCEPT ![s].pc = "call_model", ![s].messages = messages,
                                     ![s].retrieved = result,
                                     ![s].augmented = (update # <<>>)]
           /\ routeMemory' = [routeMemory EXCEPT ![route[s].threadId] = messages]
    /\ UNCHANGED <<env, faults, turns, budget, nextId, currentRouter>>
    /\ UNCHANGED chatVars /\ UNCHANGED agentVars /\ UNCHANGED unitVars

\* rag-route.graph.ts:114-128, then routeModelOutput (131-142)
RouteCallModel(s, content) ==
    /\ route[s].pc = "call_model"
    /\ LET response == AIMessage(content, ToolCalls(RouteBoundTools, TRUE))
           messages == route[s].messages \o <<response>>
       IN  /\ route' = [route EXCEPT ![s].messages = messages,
                                     ![s].pc = IF routeModelOutput(messages) = "END"
                                               THEN "done" ELSE "tools"]
           /\ routeMemory' = [routeMemory EXCEPT ![route[s].threadId] = messages]
    /\ UNCHANGED <<env, faults, turns, budget, nextId, currentRouter>>
    /\ UNCHANGED chatVars /\ UNCHANGED agentVars /\ UNCHANGED unitVars

\* rag-route.graph.ts:114-128: the model invocation throws
RouteModelThrows(s) ==
    /\ route[s].pc = "call_model"
    /\ route' = [route EXCEPT ![s].pc = "error", ![s].failed = "call_model"]
    /\ UNCHANGED <<env, faults, turns, budget, nextId, currentRouter, routeMemory>>
    /\ UNCHANGED chatVars /\ UNCHANGED agentVars /\ UNCHANGED unitVars

(***************************************************************************)
(* AgentService.chat served for several requests at once.  The service is  *)
(* a singleton whose chat method is async: between two awaits of one call  *)
(* (the history select, the agent stream, the insert) the calls of other   *)
(* requests run.  The shipped tool list is empty (part_007:153-163), so    *)
(* the stream of a call is one agent chunk.                                *)
(***************************************************************************)
RequestSlots == {1, 2}

IdleRequest == [pc |-> "idle", threadId |-> "", message |-> "", data |-> <<>>,
                toolCallHistory |-> <<>>, finalAssistantMessage |-> "",
                events |-> <<>>, from |-> 0, upto |-> 0]

\* part_007:178-197: up to the first await
RequestChat(s, message, threadId) ==
    /\ requests[s].pc \in {"idle", "closed"}
    /\ turns < MaxTurns
    /\ turns' = turns + 1
    /\ requests' = [requests EXCEPT ![s] = [IdleRequest EXCEPT !.pc = "load",
                                                               !.threadId = threadId,
                                                               !.message = message]]
    /\ UNCHANGED <<env, faults, budget, nextId, invocation, prompt, httpResponse, executor, search>>
    /\ UNCHANGED chatVars /\ UNCHANGED agentVars /\ UNCHANGED routeVars

\* part_007:198-256: the select returns, the input is handed to the graph
RequestLoad(s) ==
    /\ requests[s].pc = "load"
    /\ LET threadId == requests[s].threadId
           data == IF threadId # "" THEN SelectThread(threadId) ELSE <<>>
           loaded == LoadHistory(data)
           input == WithSystemMessage(loaded) \o <<HumanMessage(requests[s].message)>>
           key == ThreadKey(threadId)
       IN  /\ agentCheckpointer' = [agentCheckpointer EXCEPT ![key] = @ \o input]
           /\ requests' = [requests EXCEPT ![s].pc = "stream",
                                           ![s].data = data,
                                           ![s].toolCallHistory = HistoryToolCalls(loaded)]
    /\ UNCHANGED <<env, faults, turns, budget, nextId, conversations, agent,
                   invocation, prompt, httpResponse, executor, search>>
    /\ UNCHANGED chatVars /\ UNCHANGED routeVars

\* part_007:258-385: the agent answers, the chunk is relayed, the stream ends
RequestStream(s, content) ==
    /\ requests[s].pc = "stream"
    /\ budget > 0
    /\ budget' = budget - 1
    /\ LET response == AIMessage(content, <<>>)
           key == ThreadKey(requests[s].threadId)
           r == [requests[s] EXCEPT
                    !.finalAssistantMessage = ChunkFinalMessage(@, <<response>>),
                    !.events = @ \o ChunkAgentFrames(<<response>>)]
       IN  /\ agentCheckpointer' = [agentCheckpointer EXCEPT ![key] = @ \o <<response>>]
           /\ requests' = [requests EXCEPT ![s] =
                  IF r.threadId # "" THEN [r EXCEPT !.pc = "save"]
                  ELSE [r EXCEPT !.pc = "closed", !.events = @ \o AgentDoneFrames]]
    /\ UNCHANGED <<env, faults, turns, nextId, conversations, agent, invocation, prompt, httpResponse, executor, search>>
    /\ UNCHANGED chatVars /\ UNCHANGED routeVars

\* part_007:384-442: the insert returns (insertError: it returns an error);
\* from..upto are the places of the rows among the rows of the thread
RequestSave(s, insertError) ==
    /\ requests[s].pc = "save"
    /\ insertError => faults > 0
    /\ faults' = IF insertError THEN faults - 1 ELSE faults
    /\ LET r == requests[s]
           messagesToSave == MessagesToSave(r.message, r.toolCallHistory,
                                            r.finalAssistantMessage)
           itemsToInsert == ItemsToInsert(messagesToSave, r.threadId)
           held == Len(SelectThread(r.threadId))
       IN  /\ conversations' = IF insertError THEN conversations
                               ELSE Insert(conversations, itemsToInsert, Now)
           /\ requests' = [requests EXCEPT ![s] =
                  [r EXCEPT !.pc = "closed",
                            !.events = @ \o AgentDoneFrames,
                            !.from = IF insertError THEN 0 ELSE held + 1,
                            !.upto = IF insertError THEN 0 ELSE held + Len(itemsToInsert)]]
    /\ UNCHANGED <<env, turns, budget, nextId, agentCheckpointer, agent,
                   invocation, prompt, httpResponse, executor, search>>
    /\ UNCHANGED chatVars /\ UNCHANGED routeVars

(***************************************************************************)
(* One tool call, from the model's request to the frame on the stream:     *)
(* DynamicStructuredTool.call parses the arguments with the tool's schema, *)
(* then calls func with the parsed arguments; the ToolNode wraps what came *)
(* of it in a ToolMessage; ChatService relays the on_tool_end event.       *)
(* JSON texts are sequences of tokens.                                     *)
(***************************************************************************)
MaxHeaders == 2
MaxRows == 2
MaxWidth == 1

\* JavaScript values: strings, numbers, undefined
Str(text) == [type |-> "string", text |-> text, number |-> 0]
Num(number) == [type |-> "number", text |-> "", number |-> number]
Undefined == [type |-> "undefined", text |-> "", number |-> 0]

SeqsUpTo(S, n) == UNION {[1..k -> S] : k \in 0..n}

\* what a model may hand to a tool: cells that are strings or not
Cells == {Str("a"), Str("b"), Num(7)}

TableInputs ==
    [headers : SeqsUpTo(Cells, MaxHeaders), rows : SeqsUpTo(SeqsUpTo(Cells, MaxWidth), MaxRows)]

UnsplashInputs ==
    [query : {Str("a"), Num(7), Undefined},
     limit : {Undefined, Num(0), Num(1), Num(30), Num(31), Str("a")}]

ToolInputs(tool) == IF tool = "table_tool" THEN TableInputs ELSE UnsplashInputs

\* z.string(), z.array(z.string()), z.array(z.array(z.string()))
ZString(v) == v.type = "string"
ZStrings(v) == \A i \in 1..Len(v) : ZString(v[i])
ZRows(v) == \A i \in 1..Len(v) : ZStrings(v[i])

\* default.graph.ts:74-77: inputSchema.parseAsync(input)
tableInputSchema(input) ==
    [success |-> ZStrings(input.headers) /\ ZRows(input.rows),
     data |-> [headers |-> input.headers, rows |-> input.rows]]

\* default.graph.ts:79-84: outputSchema accepts the value
tableOutputSchema(output) ==
    ZStrings(output.dataTable.headers) /\ ZRows(output.dataTable.rows)

\* part_003:7-17: inputSchema.parseAsync(input); limit is optional, default 12
unsplashInputSchema(input) ==
    [success |-> /\ ZString(input.query)
                 /\ \/ input.limit.type = "undefined"
                    \/ /\ input.limit.type = "number"
                       /\ input.limit.number >= 1 /\ input.limit.number <= 30,
     data |-> [query |-> input.query,
               limit |-> IF input.limit.type = "undefined" THEN Num(12) ELSE input.limit]]

\* a tool built without its schema check
SchemaParse_Unchecked(tool, input) == [success |-> TRUE, data |-> input]

\* DynamicStructuredTool.call: the schema of the tool (default.graph.ts:90,
\* part_003:43) applied to the arguments of the call
SchemaParse(tool, input) ==
    IF tool = "table_tool" THEN tableInputSchema(input) ELSE unsplashInputSchema(input)

\* the function returning the rows last to first
randomTableGeneratorTool_RowsReversed(input) ==
    [dataTable |-> [headers |-> input.headers,
                    rows |-> [i \in 1..Len(input.rows) |->
                                 input.rows[Len(input.rows) + 1 - i]]]]

\* default.graph.ts:91-99: func, the value handed to outputSchema.parseAsync
randomTableGeneratorTool(input) ==
    [dataTable |-> [headers |-> input.headers, rows |-> input.rows]]

\* part_003:44-87: func when the search answers (no image found)
unsplashTool(input) == [images |-> <<>>]

\* JSON.stringify, token by token
Punct(text) == [kind |-> "punct", text |-> text, number |-> 0, json |-> <<>>]
Quoted(text) == [kind |-> "string", text |-> text, number |-> 0, json |-> <<>>]
Numeral(number) == [kind |-> "number", text |-> "", number |-> number, json |-> <<>>]
\* a string whose characters are a JSON text
Embedded(json) == [kind |-> "string", text |-> "", number |-> 0, json |-> json]

StringifyValue(v) ==
    CASE v.type = "string" -> Quoted(v.text)
      [] v.type = "number" -> Numeral(v.number)
      [] OTHER -> Punct("null")

RECURSIVE Join(_, _)
Join(parts, separator) ==
    IF Len(parts) = 0 THEN <<>>
    ELSE IF Len(parts) = 1 THEN parts[1]
    ELSE parts[1] \o <<separator>> \o Join(Tail(parts), separator)

StringifyArray(parts) == <<Punct("[")>> \o Join(parts, Punct(",")) \o <<Punct("]")>>

StringifyValues(values) ==
    StringifyArray([i \in 1..Len(values) |-> <<StringifyValue(values[i])>>])

StringifyTable(output) ==
    <<Punct("{"), Quoted("dataTable"), Punct(":"), Punct("{"),
      Quoted("headers"), Punct(":")>>
    \o StringifyValues(output.dataTable.headers)
    \o <<Punct(","), Quoted("rows"), Punct(":")>>
    \o StringifyArray([i \in 1..Len(output.dataTable.rows) |->
                          StringifyValues(output.dataTable.rows[i])])
    \o <<Punct("}"), Punct("}")>>

StringifyImages(output) ==
    <<Punct("{"), Quoted("images"), Punct(":")>> \o StringifyArray(output.images)
    \o <<Punct("}")>>

Stringify(tool, output) ==
    IF tool = "table_tool" THEN StringifyTable(output) ELSE StringifyImages(output)

\* JSON.stringify of a ToolMessage: the serialized constructor, the content
\* a string among its kwargs
StringifyToolMessage(m) ==
    <<Punct("{"), Quoted("type"), Punct(":"), Quoted("constructor"), Punct(","),
      Quoted("kwargs"), Punct(":"), Punct("{"),
      Quoted("content"), Punct(":"), Embedded(m.content), Punct(","),
      Quoted("name"), Punct(":"), Quoted(m.name),
      Punct("}"), Punct("}")>>

\* the content of the ToolMessage the ToolNode makes of a failed call
ToolErrorContent(error) == <<Quoted(error)>>

IdleInvocation == [pc |-> "idle", tool |-> "", input |-> <<>>, wrapped |-> FALSE,
                   args |-> <<>>, called |-> FALSE, output |-> <<>>, error |-> "",
                   message |-> <<>>, frames |-> <<>>]

\* the model's response holds a tool call: the ToolNode (default.graph.ts:42)
\* invokes the tool with its arguments. wrapped: the library hands the
\* ToolMessage, not the bare return value, to its on_tool_end event.
ToolCall(tool, wrapped) ==
    /\ invocation.pc = "idle"
    /\ \E input \in ToolInputs(tool) :
          invocation' = [IdleInvocation EXCEPT !.pc = "requested", !.tool = tool,
                                              !.input = input, !.wrapped = wrapped]
    /\ UNCHANGED <<env, turns, budget, faults, nextId, requests, prompt, httpResponse, executor, search>>
    /\ UNCHANGED chatVars /\ UNCHANGED agentVars /\ UNCHANGED routeVars

\* DynamicStructuredTool.call: schema.parseAsync(arg); a mismatch throws
\* ToolInputParsingException before func is reached
ToolParse ==
    /\ invocation.pc = "requested"
    /\ LET parsed == SchemaParse(invocation.tool, invocation.input)
       IN  invocation' = IF parsed.success
                         THEN [invocation EXCEPT !.pc = "parsed", !.args = parsed.data]
                         ELSE [invocation EXCEPT !.pc = "failed",
                                                 !.error = "ToolInputParsingException"]
    /\ UNCHANGED <<env, turns, budget, faults, nextId, requests, prompt, httpResponse, executor, search>>
    /\ UNCHANGED chatVars /\ UNCHANGED agentVars /\ UNCHANGED routeVars

\* func(parsed) (default.graph.ts:91-99, part_003:44-87). throws: the search
\* request of the image tool fails; the table tool throws when its
\* outputSchema rejects the value
ToolFunc(throws) ==
    /\ invocation.pc = "parsed"
    /\ LET output == IF invocation.tool = "table_tool"
                     THEN randomTableGeneratorTool(invocation.args)
                     ELSE unsplashTool(invocation.args)
           threw == IF invocation.tool = "table_tool"
                    THEN ~tableOutputSchema(output) ELSE throws
       IN  /\ invocation.tool = "table_tool" => ~throws
           /\ invocation' = IF threw
                            THEN [invocation EXCEPT !.pc = "failed", !.called = TRUE,
                                                    !.error = "Error"]
                            ELSE [invocation EXCEPT !.pc = "returned", !.called = TRUE,
                                                    !.output = output]
    /\ UNCHANGED <<env, turns, budget, faults, nextId, requests, prompt, httpResponse, executor, search>>
    /\ UNCHANGED chatVars /\ UNCHANGED agentVars /\ UNCHANGED routeVars

\* the ToolNode's message for the call, and the frame ChatService writes for
\* its on_tool_end event (chat.service.ts:88-99); a call that failed ends with
\* on_tool_error, for which nothing is written
ToolRelay ==
    /\ invocation.pc \in {"returned", "failed"}
    /\ LET returned == invocation.pc = "returned"
           content == IF returned THEN Stringify(invocation.tool, invocation.output)
                      ELSE ToolErrorContent(invocation.error)
           message == ToolMessage(content, 1, invocation.tool)
           out == IF invocation.wrapped THEN StringifyToolMessage(message) ELSE content
       IN  invocation' = [invocation EXCEPT
                             !.pc = "relayed",
                             !.message = message,
                             !.frames = IF returned THEN ChatFrames("on_tool_end", out)
                                        ELSE ChatFrames("on_tool_error", out)]
    /\ UNCHANGED <<env, turns, budget, faults, nextId, requests, prompt, httpResponse, executor, search>>
    /\ UNCHANGED chatVars /\ UNCHANGED agentVars /\ UNCHANGED routeVars

(***************************************************************************)
(* callModel's system prompt (default.graph.ts:10-21, the same lines in     *)
(* rag-tool.graph.ts:17, rag-route.graph.ts:122, part_002:67).  A template  *)
(* is a sequence of pieces of text, the marker one of them.                 *)
(***************************************************************************)
MaxTemplate == 3

TemplateParts == {"You are a helpful AI assistant.", "System time:", "{system_time}"}

Templates == UNION {[1..k -> TemplateParts] : k \in 0..MaxTemplate}

\* new Date().toISOString() at two calls
Times == {"2025-01-01T00:00:00.000Z", "2025-01-01T00:00:01.000Z"}

\* config/prompts.ts
SYSTEM_PROMPT_TEMPLATE == <<"You are a helpful AI assistant.", "System time:", "{system_time}">>

\* configurable.systemPromptTemplate: set to a template, or not set
Configurables ==
    {[set |-> FALSE, systemPromptTemplate |-> <<>>]}
    \cup {[set |-> TRUE, systemPromptTemplate |-> template] : template \in Templates}

\* configuration.ts:27-40 (the template)
ensureConfiguration(configurable) ==
    [systemPromptTemplate |-> IF configurable.set THEN configurable.systemPromptTemplate
                              ELSE SYSTEM_PROMPT_TEMPLATE]

\* String.prototype.replace with a string pattern: the first occurrence of
\* the pattern is replaced, later ones are left as they are
Replace(string, pattern, replacement) ==
    IF \E i \in 1..Len(string) : string[i] = pattern
    THEN LET first == CHOOSE i \in 1..Len(string) :
                        /\ string[i] = pattern
                        /\ \A j \in 1..(i - 1) : string[j] # pattern
         IN  [string EXCEPT ![first] = replacement]
    ELSE string

IdlePrompt == [pc |-> "idle", configurable |-> [set |-> FALSE, systemPromptTemplate |-> <<>>],
               sys |-> <<>>, time |-> ""]

\* a run of the graph starts with its config
PromptConfigure ==
    /\ prompt.pc = "idle"
    /\ \E configurable \in Configurables :
          prompt' = [IdlePrompt EXCEPT !.pc = "configured", !.configurable = configurable]
    /\ UNCHANGED <<env, turns, budget, faults, nextId, requests, invocation, httpResponse, executor, search>>
    /\ UNCHANGED chatVars /\ UNCHANGED agentVars /\ UNCHANGED routeVars

\* default.graph.ts:13-17: one model call of the run builds its system prompt
PromptCallModel ==
    /\ prompt.pc \in {"configured", "called"}
    /\ budget > 0
    /\ budget' = budget - 1
    /\ \E time \in Times :
          LET configuration == ensureConfiguration(prompt.configurable)
              sys == Replace(configuration.systemPromptTemplate, "{system_time}", time)
          IN  prompt' = [prompt EXCEPT !.pc = "called", !.sys = sys, !.time = time]
    /\ UNCHANGED <<env, turns, faults, nextId, requests, invocation, httpResponse, executor, search>>
    /\ UNCHANGED chatVars /\ UNCHANGED agentVars /\ UNCHANGED routeVars

(***************************************************************************)
(* The graphs of the module and their tools: what callModel binds to the   *)
(* model, and what the graph's ToolNode is built with.                     *)
(***************************************************************************)
Graphs == {"DefaultGraph", "RAGGraph", "AdaptiveRAGGraph", "AutoRAGGraph", "ReactAgent"}

\* rag-tool.graph.ts:16: bindTools([retrieverTool])
RagToolBoundTools == {"supabase_retriever"}

\* part_002:59-75: callModel of the AutoRAGGraph binds no tools
AutoRagBoundTools == {}

\* the tools bound to the model in callModel (default.graph.ts:15,
\* rag-tool.graph.ts:16, rag-route.graph.ts:114-128, part_002:59-75), and
\* the tools createReactAgent is given (part_007:169-173)
BoundTools(graph) ==
    CASE graph = "DefaultGraph" -> TOOLS
      [] graph = "RAGGraph" -> RagToolBoundTools
      [] graph = "AdaptiveRAGGraph" -> RouteBoundTools
      [] graph = "AutoRAGGraph" -> AutoRagBoundTools
      [] graph = "ReactAgent" -> env.agentTools

\* new ToolNode(TOOLS) (default.graph.ts:42, rag-tool.graph.ts:42,
\* rag-route.graph.ts:150, part_002:94); createReactAgent builds its tool
\* node from the list it binds
NodeTools(graph) ==
    IF graph = "ReactAgent" THEN env.agentTools ELSE TOOLS

(***************************************************************************)
(* ChatService.chat, the text it writes (chat.service.ts:61-128).  A text  *)
(* is a sequence of characters; LF is the line feed.  The fixed pieces of  *)
(* a frame ("event: ", "data: ") are one element each.                     *)
(***************************************************************************)
MaxText == 2           \* characters of a chunk, a tool result or an error message
MaxEvents == 2         \* stream events of one response

LF == "LF"
StreamTexts == SeqsUpTo({"a", LF}, MaxText)

\* chat.service.ts:71: chunk.replace(/\n/g, '\\n')
RECURSIVE EscapeNewlines(_)
EscapeNewlines(text) ==
    IF text = <<>> THEN <<>>
    ELSE (IF Head(text) = LF THEN <<"\\", "n">> ELSE <<Head(text)>>)
         \o EscapeNewlines(Tail(text))

\* JSON.stringify of a string: quoted, with the quote, the backslash and the
\* line feed escaped
RECURSIVE JsonEscape(_)
JsonEscape(text) ==
    IF text = <<>> THEN <<>>
    ELSE (CASE Head(text) = LF -> <<"\\", "n">>
            [] Head(text) = "\\" -> <<"\\", "\\">>
            [] Head(text) = "\"" -> <<"\\", "\"">>
            [] OTHER -> <<Head(text)>>)
         \o JsonEscape(Tail(text))

JsonString(text) == <<"\"">> \o JsonEscape(text) \o <<"\"">>

\* chat.service.ts:92-94: JSON.stringify(data.output), the output a
\* ToolMessage whose content is the tool's text
JsonToolOutput(content) ==
    <<"{\"kwargs\":{\"content\":">> \o JsonString(content) \o <<"}}">>

\* response.write(`event: ${type}\n`); response.write(`data: ${payload}\n\n`)
FrameText(type, payload) == <<"event: ", type, LF, "data: ">> \o payload \o <<LF, LF>>

\* chat.service.ts:61-104: what the switch writes for one stream event
WriteFrames(event, data) ==
    CASE event = "on_chat_model_stream" ->
           IF "chunk" \in DataKeys(event) /\ data # <<>>
           THEN <<FrameText("message", EscapeNewlines(data))>> ELSE <<>>
      [] event = "on_tool_start" ->
           IF "tool_name" \in DataKeys(event)
           THEN <<FrameText("tool_start", <<"starting tool ">> \o JsonString(data))>>
           ELSE <<>>
      [] event = "on_tool_end" ->
           IF "output" \in DataKeys(event)
           THEN <<FrameText("tool", JsonToolOutput(data))>> ELSE <<>>
      [] OTHER -> <<>>

IdleResponse == [pc |-> "idle", written |-> <<>>, events |-> 0,
                 headersSent |-> FALSE, writableEnded |-> FALSE]

\* chat.service.ts:35-59: headers flushed, the stream requested
ChatStreamOpen ==
    /\ httpResponse.pc \in {"idle", "closed"}
    /\ httpResponse' = [IdleResponse EXCEPT !.pc = "streaming", !.headersSent = TRUE]
    /\ UNCHANGED <<env, turns, budget, faults, nextId, requests, invocation, prompt, executor, search>>
    /\ UNCHANGED chatVars /\ UNCHANGED agentVars /\ UNCHANGED routeVars

\* chat.service.ts:61-104: one iteration of the loop over the stream
ChatStreamEvent(event) ==
    /\ httpResponse.pc = "streaming"
    /\ httpResponse.events < MaxEvents
    /\ \E data \in StreamTexts :
          httpResponse' = [httpResponse EXCEPT !.events = @ + 1,
                                       !.written = @ \o WriteFrames(event, data)]
    /\ UNCHANGED <<env, turns, budget, faults, nextId, requests, invocation, prompt, executor, search>>
    /\ UNCHANGED chatVars /\ UNCHANGED agentVars /\ UNCHANGED routeVars

\* chat.service.ts:105-107, 122-128: the stream ended
ChatStreamEnds ==
    /\ httpResponse.pc = "streaming"
    /\ httpResponse' = [httpResponse EXCEPT !.pc = "closed", !.written = Append(@, FrameText("done", <<"done">>)),
                                    !.writableEnded = TRUE]
    /\ UNCHANGED <<env, turns, budget, faults, nextId, requests, invocation, prompt, executor, search>>
    /\ UNCHANGED chatVars /\ UNCHANGED agentVars /\ UNCHANGED routeVars

\* chat.service.ts:108-128: the stream threw an Error with this message,
\* written as `event: error\ndata: ${errorMessage}\n\n`
ChatStreamThrows ==
    /\ httpResponse.pc = "streaming"
    /\ \E errorMessage \in StreamTexts :
          httpResponse' = [httpResponse EXCEPT
                          !.pc = "closed",
                          !.written = IF httpResponse.writableEnded THEN @
                                      ELSE Append(@, FrameText("error", errorMessage)),
                          !.writableEnded = TRUE]
    /\ UNCHANGED <<env, turns, budget, faults, nextId, requests, invocation, prompt, executor, search>>
    /\ UNCHANGED chatVars /\ UNCHANGED agentVars /\ UNCHANGED routeVars

(***************************************************************************)
(* javascript_executor (unnamed/part_008:198-347).  A code string is what  *)
(* it does when run: the lines it prints, whether it assigns a global      *)
(* named logs, and how it ends.                                            *)
(***************************************************************************)
MaxLogs == 2           \* console.log calls of one code string

\* syntaxError: the wrapped code does not compile; definesLogs: the code starts
\* with `logs = []`, an assignment to a global of the context; throws: it
\* throws new Error('boom'); throwsNull: it throws null; loops: it does not end
Codes ==
    {c \in [syntaxError : BOOLEAN, logs : SeqsUpTo({"x", "y"}, MaxLogs),
            definesLogs : BOOLEAN, outcome : {"returns", "throws", "throwsNull", "loops"},
            value : {Str("v"), Undefined}] :
        /\ c.syntaxError => c.logs = <<>> /\ ~c.definesLogs /\ c.outcome = "returns"
        /\ c.outcome # "returns" => c.value = Undefined}

\* part_008:198-223: createSandbox, the globals of the context next to its
\* intrinsics. `logs` is not one of them.
SandboxGlobals ==
    {"Array", "Object", "String", "Number", "Math", "Date", "JSON", "parseInt",
     "parseFloat", "RegExp", "Map", "Set", "console"}

\* An error carries the realm whose Error constructor made it: the host's, or
\* that of the context vm.createContext made.
\* part_008:269-280 evaluated in the context: the object literal
\* { success, result | error, logs } reads the global `logs`
WrapperObject(code, success, value) ==
    IF "logs" \in SandboxGlobals \/ code.definesLogs
    THEN [threw |-> FALSE, error |-> [realm |-> "", message |-> ""],
          value |-> [success |-> success, result |-> value, logs |-> <<>>]]
    ELSE [threw |-> TRUE, error |-> [realm |-> "context", message |-> "logs is not defined"],
          value |-> <<>>]

\* part_008:269-287: vm.runInContext(wrappedCode, context, {timeout: 2000}).
\* compileRealm: the realm of the SyntaxError of a code that does not compile.
RunInContext(code, compileRealm) ==
    IF code.syntaxError
    THEN [threw |-> TRUE, error |-> [realm |-> compileRealm, message |-> "Unexpected token"], value |-> <<>>]
    ELSE CASE code.outcome = "loops" ->
                [threw |-> TRUE, value |-> <<>>,
                 error |-> [realm |-> "host", message |-> "Script execution timed out after 2000ms"]]
           [] code.outcome = "returns" ->
                LET made == WrapperObject(code, TRUE, code.value)
                IN  IF made.threw
                    THEN WrapperObject(code, FALSE, Str(made.error.message))
                    ELSE made
           [] code.outcome = "throws" -> WrapperObject(code, FALSE, Str("boom"))
           [] code.outcome = "throwsNull" ->
                [threw |-> TRUE, value |-> <<>>,
                 error |-> [realm |-> "context", message |-> "Cannot read properties of null"]]

\* part_008:228-231: safeStringify of a value that is no object
SafeStringify(v) == IF v.type = "undefined" THEN "undefined" ELSE v.text

\* part_008:293-295: result.logs.join('\n') + '\n\n'
JoinedLogs(logs) ==
    IF Len(logs) > 0 THEN Join([i \in 1..Len(logs) |-> <<logs[i]>>], LF) \o <<LF, LF>>
    ELSE <<>>

\* part_008:251-313
executeJavaScriptSafely(code, compileRealm) ==
    LET result == RunInContext(code, compileRealm)
    IN  IF result.threw
        THEN IF result.error.realm = "host"
             THEN <<"JavaScript execution error: ", result.error.message>>
             ELSE <<"Unknown JavaScript execution error">>
        ELSE JoinedLogs(result.value.logs)
             \o (IF result.value.success
                 THEN <<SafeStringify(result.value.result)>>
                 ELSE <<"Error: ", result.value.result.text>>)

IdleExecutor == [pc |-> "idle", code |-> <<>>, logs |-> <<>>, result |-> <<>>,
                 threw |-> FALSE]

\* part_008:331-336: func is called with a code string; the sandbox and the
\* array of captured lines are made (254-262)
ExecutorCall ==
    /\ executor.pc \in {"idle", "done"}
    /\ \E code \in Codes :
          executor' = [IdleExecutor EXCEPT !.pc = "running", !.code = code]
    /\ UNCHANGED <<env, turns, budget, faults, nextId, requests, invocation, prompt,
                   httpResponse, search>>
    /\ UNCHANGED chatVars /\ UNCHANGED agentVars /\ UNCHANGED routeVars

\* part_008:258-262: the code calls console.log, the line is pushed
ExecutorLog ==
    /\ executor.pc = "running"
    /\ ~executor.code.syntaxError
    /\ Len(executor.logs) < Len(executor.code.logs)
    /\ executor' = [executor EXCEPT
                       !.logs = Append(@, executor.code.logs[Len(executor.logs) + 1])]
    /\ UNCHANGED <<env, turns, budget, faults, nextId, requests, invocation, prompt,
                   httpResponse, search>>
    /\ UNCHANGED chatVars /\ UNCHANGED agentVars /\ UNCHANGED routeVars

\* part_008:283-312, 331-346: the run ends, the output is formatted and
\* outputSchema.parse({result}) accepts it, a string
ExecutorSettle ==
    /\ executor.pc = "running"
    /\ executor.code.syntaxError \/ Len(executor.logs) = Len(executor.code.logs)
    /\ \E compileRealm \in {"host", "context"} :
          executor' = [executor EXCEPT
                          !.pc = "done",
                          !.result = executeJavaScriptSafely(executor.code, compileRealm),
                          !.threw = FALSE]
    /\ UNCHANGED <<env, turns, budget, faults, nextId, requests, invocation, prompt,
                   httpResponse, search>>
    /\ UNCHANGED chatVars /\ UNCHANGED agentVars /\ UNCHANGED routeVars

(***************************************************************************)
(* vector_search (vector-search.tool.ts:48-182).  The input is a text, a   *)
(* sequence of tokens; JSON.parse is modelled on the texts of scalars, of  *)
(* the empty array and of objects whose members are scalars.               *)
(***************************************************************************)
MaxFields == 2         \* members of a JSON object handed to vector_search

\* characters that are no JSON token
Word(text) == [kind |-> "word", text |-> text, number |-> 0, json |-> <<>>]

\* JSON values
JsonValue(type, text, number, fields) ==
    [type |-> type, text |-> text, number |-> number, fields |-> fields]

JsonScalars ==
    {JsonValue("string", "q", 0, <<>>), JsonValue("number", "", 3, <<>>),
     JsonValue("null", "", 0, <<>>)}
JsonObjects ==
    {JsonValue("object", "", 0, fields) :
        fields \in SeqsUpTo([key : {"query", "k"}, value : JsonScalars], MaxFields)}

\* JSON.stringify of a scalar, and of a value
ScalarToken(v) ==
    CASE v.type = "string" -> Quoted(v.text)
      [] v.type = "number" -> Numeral(v.number)
      [] OTHER -> Punct("null")

JsonText(v) ==
    CASE v.type = "object" ->
           <<Punct("{")>>
           \o Join([i \in 1..Len(v.fields) |->
                      <<Quoted(v.fields[i].key), Punct(":"), ScalarToken(v.fields[i].value)>>],
                   Punct(","))
           \o <<Punct("}")>>
      [] v.type = "array" -> <<Punct("["), Punct("]")>>
      [] OTHER -> <<ScalarToken(v)>>

\* what a model hands to the tool: a JSON text, a JSON text cut short, plain
\* words, nothing
SearchInputs ==
    {JsonText(v) : v \in JsonObjects \cup JsonScalars \cup {JsonValue("array", "", 0, <<>>)}}
    \cup {SubSeq(JsonText(v), 1, Len(JsonText(v)) - 1) : v \in JsonObjects}
    \cup {<<Word("w")>>, <<>>}

IsPunct(token, text) == token.kind = "punct" /\ token.text = text
IsScalarToken(token) == token.kind \in {"string", "number"} \/ IsPunct(token, "null")

ScalarOf(token) ==
    CASE token.kind = "string" -> JsonValue("string", token.text, 0, <<>>)
      [] token.kind = "number" -> JsonValue("number", "", token.number, <<>>)
      [] OTHER -> JsonValue("null", "", 0, <<>>)

\* vector-search.tool.ts:58: JSON.parse(input); ok FALSE: it throws SyntaxError
JsonParse(input) ==
    LET body == SubSeq(input, 2, Len(input) - 1)
        n == Len(body)
        members == \/ n = 0
                   \/ /\ n % 4 = 3
                      /\ \A j \in 1..n :
                           CASE j % 4 = 1 -> body[j].kind = "string"
                             [] j % 4 = 2 -> IsPunct(body[j], ":")
                             [] j % 4 = 3 -> IsScalarToken(body[j])
                             [] OTHER -> IsPunct(body[j], ",")
    IN  IF Len(input) = 1 /\ IsScalarToken(input[1])
        THEN [ok |-> TRUE, value |-> ScalarOf(input[1])]
        ELSE IF Len(input) = 2 /\ IsPunct(input[1], "[") /\ IsPunct(input[2], "]")
        THEN [ok |-> TRUE, value |-> JsonValue("array", "", 0, <<>>)]
        ELSE IF /\ Len(input) >= 2 /\ IsPunct(input[1], "{")
                /\ IsPunct(input[Len(input)], "}") /\ members
        THEN [ok |-> TRUE,
              value |-> JsonValue("object", "", 0,
                                 [i \in 1..((n + 1) \div 4) |->
                                    [key |-> body[4 * i - 3].text,
                                     value |-> ScalarOf(body[4 * i - 1])]])]
        ELSE [ok |-> FALSE, value |-> JsonValue("null", "", 0, <<>>)]

\* `key in object`, and object[key]: of two members of one name the later
HasKey(object, key) == \E i \in 1..Len(object.fields) : object.fields[i].key = key
Property(object, key) ==
    LET i == CHOOSE j \in 1..Len(object.fields) :
                 /\ object.fields[j].key = key
                 /\ \A h \in (j + 1)..Len(object.fields) : object.fields[h].key # key
    IN  object.fields[i].value

\* an object's query taken whatever its type
ResolveInput_AnyQuery(input) ==
    LET parsed == JsonParse(input)
    IN  IF parsed.ok /\ parsed.value.type = "object" /\ HasKey(parsed.value, "query")
        THEN [query |-> <<Word(Property(parsed.value, "query").text)>>,
              k |-> IF /\ HasKey(parsed.value, "k")
                       /\ Property(parsed.value, "k").type = "number"
                    THEN Property(parsed.value, "k").number ELSE 5]
        ELSE [query |-> input, k |-> 5]

\* vector-search.tool.ts:53-76
ResolveInput(input) ==
    LET parsed == JsonParse(input)
    IN  IF /\ parsed.ok /\ parsed.value.type = "object"
           /\ HasKey(parsed.value, "query")
           /\ Property(parsed.value, "query").type = "string"
        THEN [query |-> <<Word(Property(parsed.value, "query").text)>>,
              k |-> IF /\ HasKey(parsed.value, "k")
                       /\ Property(parsed.value, "k").type = "number"
                    THEN Property(parsed.value, "k").number ELSE 5]
        ELSE [query |-> input, k |-> 5]

\* vector-search.tool.ts:78-180: the text func returns when
\* vectorStore.similaritySearch answers, throws an Error, throws something else
SearchOutput(outcome) ==
    CASE outcome = "found" -> <<"[", "documents", "]">>
      [] outcome = "throwsError" -> <<"Error: ", "search failed">>
      [] OTHER -> <<"Error: ", "Failed to search knowledge base">>

IdleSearch == [pc |-> "idle", input |-> <<>>, query |-> <<>>, k |-> 0,
               outcome |-> "", output |-> <<>>, threw |-> FALSE]

\* vector-search.tool.ts:52-76: func is called, query and k are resolved
SearchCall ==
    /\ search.pc \in {"idle", "done"}
    /\ \E input \in SearchInputs :
          search' = [IdleSearch EXCEPT !.pc = "searching", !.input = input,
                                       !.query = ResolveInput(input).query,
                                       !.k = ResolveInput(input).k]
    /\ UNCHANGED <<env, turns, budget, faults, nextId, requests, invocation, prompt,
                   httpResponse, executor>>
    /\ UNCHANGED chatVars /\ UNCHANGED agentVars /\ UNCHANGED routeVars

\* vector-search.tool.ts:78-180: the search answers or fails
SearchSettle(outcome) ==
    /\ search.pc = "searching"
    /\ search' = [search EXCEPT !.pc = "done", !.outcome = outcome,
                                !.output = SearchOutput(outcome), !.threw = FALSE]
    /\ UNCHANGED <<env, turns, budget, faults, nextId, requests, invocation, prompt,
                   httpResponse, executor>>
    /\ UNCHANGED chatVars /\ UNCHANGED agentVars /\ UNCHANGED routeVars

(***************************************************************************)
(* Specifications                                                          *)
(***************************************************************************)
\* tool: the tool the model asks for; calls: how many calls one response holds;
\* result: what the tool's function does; reversed: the runs of one cycle complete
\* in reverse request order; chatty: a response that requests tools also has text.
ToolResults == {"result", "", "Error"}

Envs(tools, registered) ==
    {e \in [tool : tools, calls : 1..MaxCalls, result : ToolResults,
            reversed : BOOLEAN, chatty : BOOLEAN, agentTools : registered] :
        e.reversed => e.calls > 1}

InitCommon ==
    /\ turns = 0
    /\ faults = MaxFaults
    /\ nextId = 1
    /\ memory = [t \in Threads |-> <<>>]
    /\ chat = IdleChat
    /\ conversations = <<>>
    /\ agentCheckpointer = [t \in AgentThreadKeys |-> <<>>]
    /\ agent = IdleAgent
    /\ currentRouter = "general"
    /\ routeMemory = [t \in Threads |-> <<>>]
    /\ route = [s \in RouteSlots |-> IdleRoute]
    /\ requests = [s \in RequestSlots |-> IdleRequest]
    /\ invocation = IdleInvocation
    /\ prompt = IdlePrompt
    /\ httpResponse = IdleResponse
    /\ executor = IdleExecutor
    /\ search = IdleSearch

\* ChatService treats every tool payload alike: one stands for both
InitChat ==
    /\ env \in {e \in Envs({"table_tool"}, {{}}) : e.result # ""}
    /\ budget = MaxModelCalls
    /\ InitCommon

NextChat ==
    \/ \E message \in UserTexts, threadId \in Threads : Chat(message, threadId)
    \/ \E partial \in {"", "text"} : ChatModelThrows(partial)
    \/ ChatCallModel("text", FALSE)
    \/ ChatCallModel(IF env.chatty THEN "text" ELSE "", TRUE)
    \/ ChatTools

SpecChat == InitChat /\ [][NextChat]_vars

\* ChatService with tools that may hang (result "hangs": the tool's promise
\* never settles). Every turn has the model calls its recursion limit allows.
InitChatLive ==
    /\ env \in {[e EXCEPT !.result = r] :
                  e \in {x \in Envs({"table_tool"}, {{}}) :
                            x.calls = 1 /\ x.result = "result" /\ ~x.chatty},
                  r \in {"result", "hangs"}}
    /\ budget = MaxTurns * DefaultRecursionLimit
    /\ InitCommon

\* the steps of a running turn: the event loop runs every continuation that
\* is ready, and a pending call to the model provider returns or fails
ChatProgress ==
    \/ \E partial \in {"", "text"} : ChatModelThrows(partial)
    \/ ChatCallModel("text", FALSE)
    \/ ChatCallModel(IF env.chatty THEN "text" ELSE "", TRUE)
    \/ ChatTools

NextChatLive ==
    \/ \E message \in UserTexts, threadId \in Threads : Chat(message, threadId)
    \/ ChatProgress

SpecChatLive == InitChatLive /\ [][NextChatLive]_vars /\ WF_vars(ChatProgress)

\* ChatService and a client that may disconnect while its turn is running
InitChatClient ==
    /\ env \in {e \in Envs({"table_tool"}, {{}}) : e.result = "result" /\ ~e.reversed}
    /\ budget = MaxModelCalls
    /\ InitCommon

NextChatClient ==
    \/ \E message \in UserTexts, threadId \in Threads : Chat(message, threadId)
    \/ \E partial \in {"", "text"} : ChatModelThrows(partial)
    \/ ChatCallModel("text", FALSE)
    \/ ChatCallModel(IF env.chatty THEN "text" ELSE "", TRUE)
    \/ ChatTools
    \/ ClientDisconnects

SpecChatClient == InitChatClient /\ [][NextChatClient]_vars

\* AgentService: with the shipped empty tool list the model can request no tool,
\* so one environment stands for all; the tool's name only selects the type of
\* the event that relays its result, so the second tool runs in one environment.
\* The chunks of the stream come in node order: reversed plays no part.
InitAgent ==
    /\ env \in {e \in Envs({"vector_search", "public_tender_search"}, AgentToolSets) :
                  /\ ~e.reversed
                  /\ (e.agentTools = {} \/ e.tool = "public_tender_search") =>
                        e.calls = 1 /\ e.result = "result" /\ ~e.chatty
                  /\ e.agentTools = {} => e.tool = "vector_search"}
    /\ budget = MaxAgentModelCalls
    /\ InitCommon

NextAgent ==
    \/ \E message \in UserTexts, threadId \in AgentThreads : AgentChat(message, threadId)
    \/ \E fetchError \in BOOLEAN : AgentLoad(fetchError)
    \/ AgentModelThrows
    \/ \E content \in {"", "text"} : AgentModel(content, FALSE)
    \/ AgentModel(IF env.chatty THEN "text" ELSE "", TRUE)
    \/ AgentTools
    \/ \E insertError \in BOOLEAN : AgentSave(insertError)

SpecAgent == InitAgent /\ [][NextAgent]_vars

\* AgentService with a model that always answers with text and tools that
\* always return a payload
InitAgentPlain ==
    /\ InitAgent
    /\ env.result = "result"

NextAgentPlain ==
    \/ \E message \in UserTexts, threadId \in AgentThreads : AgentChat(message, threadId)
    \/ \E fetchError \in BOOLEAN : AgentLoad(fetchError)
    \/ AgentModelThrows
    \/ AgentModel("text", FALSE)
    \/ AgentModel(IF env.chatty THEN "text" ELSE "", TRUE)
    \/ AgentTools
    \/ \E insertError \in BOOLEAN : AgentSave(insertError)

SpecAgentPlain == InitAgentPlain /\ [][NextAgentPlain]_vars

\* the rows a completed turn of an earlier run of the server left in the table
EarlierTurn(threadId) ==
    Insert(<<>>, ItemsToInsert(MessagesToSave("q", <<>>, "text"), threadId), 0)

\* AgentService started on a table that holds a turn of thread t1: the table
\* outlives the server, the checkpointer (part_007:166) does not
InitAgentHistory ==
    /\ env \in {e \in Envs({"vector_search"}, AgentToolSets) :
                  /\ ~e.reversed /\ e.calls = 1 /\ e.result = "result" /\ ~e.chatty}
    /\ budget = MaxAgentModelCalls
    /\ turns = 0
    /\ faults = MaxFaults
    /\ nextId = 1
    /\ memory = [t \in Threads |-> <<>>]
    /\ chat = IdleChat
    /\ conversations = EarlierTurn("t1")
    /\ agentCheckpointer = [t \in AgentThreadKeys |-> <<>>]
    /\ agent = IdleAgent
    /\ currentRouter = "general"
    /\ routeMemory = [t \in Threads |-> <<>>]
    /\ route = [s \in RouteSlots |-> IdleRoute]
    /\ requests = [s \in RequestSlots |-> IdleRequest]
    /\ invocation = IdleInvocation
    /\ prompt = IdlePrompt
    /\ httpResponse = IdleResponse
    /\ executor = IdleExecutor
    /\ search = IdleSearch

SpecAgentHistory == InitAgentHistory /\ [][NextAgentPlain]_vars

InitRoute ==
    /\ env \in {e \in Envs({"table_tool"}, {{}}) :
                  e.calls = 1 /\ e.result = "result" /\ ~e.chatty}
    /\ budget = MaxModelCalls
    /\ InitCommon

NextRoute ==
    \/ \E s \in RouteSlots, message \in UserTexts, threadId \in Threads :
          RouteStart(s, message, threadId)
    \/ \E s \in RouteSlots, modelResponse \in RouterTypes : AnalyzeQuery(s, modelResponse)
    \/ \E s \in RouteSlots, kind \in {"model", "malformed"} : AnalyzeQueryThrows(s, kind)
    \/ \E s \in RouteSlots : RetrieveContext(s)
    \/ \E s \in RouteSlots, result \in {"docs", "none", "throws"} : RetrieveDone(s, result)
    \/ \E s \in RouteSlots, content \in {"", "text"} : RouteCallModel(s, content)
    \/ \E s \in RouteSlots : RouteModelThrows(s)

SpecRoute == InitRoute /\ [][NextRoute]_vars

\* AgentService as shipped (no tools), its requests served concurrently
InitAgentConcurrent ==
    /\ env \in {e \in Envs({"vector_search"}, {{}}) :
                  e.calls = 1 /\ e.result = "result" /\ ~e.reversed /\ ~e.chatty}
    /\ budget = MaxAgentModelCalls
    /\ InitCommon

NextAgentConcurrent ==
    \/ \E s \in RequestSlots, message \in UserTexts, threadId \in AgentThreads :
          RequestChat(s, message, threadId)
    \/ \E s \in RequestSlots : RequestLoad(s)
    \/ \E s \in RequestSlots, content \in {"", "text"} : RequestStream(s, content)
    \/ \E s \in RequestSlots, insertError \in BOOLEAN : RequestSave(s, insertError)

SpecAgentConcurrent == InitAgentConcurrent /\ [][NextAgentConcurrent]_vars

\* one tool call of the DefaultGraph, its arguments whatever the model wrote
InitTool ==
    /\ env \in {e \in Envs({"table_tool"}, {{}}) :
                  e.calls = 1 /\ e.result = "result" /\ ~e.reversed /\ ~e.chatty}
    /\ budget = MaxModelCalls
    /\ InitCommon

NextTool ==
    \/ \E tool \in {"table_tool", "unsplash_image_search"}, wrapped \in BOOLEAN :
          ToolCall(tool, wrapped)
    \/ ToolParse
    \/ \E throws \in BOOLEAN : ToolFunc(throws)
    \/ ToolRelay

SpecTool == InitTool /\ [][NextTool]_vars

\* AgentService with three tools enabled: the two whose results have an event
\* type of their own, and one (weather.tool.ts:40) that has none. What a
\* tool returns plays no part in the choice of the type: the first two return
\* a payload.
InitAgentRelay ==
    /\ env \in {e \in Envs({"vector_search", "public_tender_search", "get_weather"},
                          {{"vector_search", "public_tender_search", "get_weather"}}) :
                  /\ ~e.reversed /\ ~e.chatty
                  /\ e.tool # "get_weather" => e.result = "result"}
    /\ budget = MaxAgentModelCalls
    /\ InitCommon

SpecAgentRelay == InitAgentRelay /\ [][NextAgent]_vars

\* the system prompt of the model calls of one run
InitPrompt ==
    /\ env \in {e \in Envs({"table_tool"}, {{}}) :
                  e.calls = 1 /\ e.result = "result" /\ ~e.reversed /\ ~e.chatty}
    /\ budget = MaxCalls
    /\ InitCommon

NextPrompt ==
    \/ PromptConfigure
    \/ PromptCallModel

SpecPrompt == InitPrompt /\ [][NextPrompt]_vars

\* ChatService.chat as the writer of its response: no request served yet
InitChatStream ==
    /\ env \in {e \in Envs({"table_tool"}, {{}}) :
                  e.calls = 1 /\ e.result = "result" /\ ~e.reversed /\ ~e.chatty}
    /\ budget = MaxModelCalls
    /\ InitCommon

NextChatStream ==
    \/ ChatStreamOpen
    \/ \E event \in {"on_chat_model_stream", "on_tool_start", "on_tool_end", "on_chain_end"} :
          ChatStreamEvent(event)
    \/ ChatStreamEnds
    \/ ChatStreamThrows

SpecChatStream == InitChatStream /\ [][NextChatStream]_vars

\* javascript_executor called with one code string after another
NextExecutor ==
    \/ ExecutorCall
    \/ ExecutorLog
    \/ ExecutorSettle

SpecExecutor == InitChatStream /\ [][NextExecutor]_vars

\* vector_search called with one input after another
NextSearch ==
    \/ SearchCall
    \/ \E outcome \in {"found", "throwsError", "throwsOther"} : SearchSettle(outcome)

SpecSearch == InitChatStream /\ [][NextSearch]_vars

\* AgentService behind its controller
NextAgentController ==
    \/ NextAgentPlain
    \/ AgentControllerReturns

SpecAgentController == InitAgentPlain /\ [][NextAgentController]_vars

\* the routed graph with its turns one at a time: a request is taken when no
\* other is being served
RouteQuiet == \A s \in RouteSlots : route[s].pc \in {"idle", "done", "error"}

RouteStartSerial(s, message, threadId) ==
    /\ RouteQuiet
    /\ RouteStart(s, message, threadId)

NextRouteSerial ==
    \/ \E s \in RouteSlots, message \in UserTexts, threadId \in Threads :
          RouteStartSerial(s, message, threadId)
    \/ \E s \in RouteSlots, modelResponse \in RouterTypes : AnalyzeQuery(s, modelResponse)
    \/ \E s \in RouteSlots, kind \in {"model", "malformed"} : AnalyzeQueryThrows(s, kind)
    \/ \E s \in RouteSlots : RetrieveContext(s)
    \/ \E s \in RouteSlots, result \in {"docs", "none", "throws"} : RetrieveDone(s, result)
    \/ \E s \in RouteSlots, content \in {"", "text"} : RouteCallModel(s, content)
    \/ \E s \in RouteSlots : RouteModelThrows(s)

SpecRouteSerial == InitRoute /\ [][NextRouteSerial]_vars

(***************************************************************************)
(* Claims                                                                  *)
(***************************************************************************)
Types(events) == {events[i].type : i \in 1..Len(events)}

\* C1: when the stream of a chat request is closed, a `done` event has been
\* written, it is the last event written, and it was written once.
C1_DoneIsLastEvent ==
    chat.ended =>
        /\ Len(chat.events) > 0
        /\ Last(chat.events).type = "done"
        /\ \A i \in 1..(Len(chat.events) - 1) : chat.events[i].type # "done"

\* C2: a turn that fails ends its stream with an `error` event followed by
\* `done`; it never ends without an `error` event.
C2_ErrorThenDone ==
    (chat.ended /\ chat.failed) =>
        /\ Len(chat.events) >= 2
        /\ chat.events[Len(chat.events) - 1].type = "error"
        /\ Last(chat.events).type = "done"

C4_ReadsOwnRoutingDecision ==
    \A s \in RouteSlots : route[s].read # "none" => route[s].read = route[s].own

\* C5: a run whose classification call failed has the routing decision
\* `general` and goes on to the model call; it is not aborted.
C5_ClassificationFailureDegrades ==
    \A s \in RouteSlots :
        route[s].failed \in {"model", "malformed"} =>
            /\ route[s].own = "general"
            /\ route[s].pc # "error"

\* the iteration cap of the Orchestration Loop (re-entries of MODEL_CALL per
\* turn): the value AgentService.chat configures
IterationCap == AgentRecursionLimit

\* C6: a turn whose every model call requested tools re-enters the model call
\* at most IterationCap times, and when it has ended its stream ends with `done`.
C6_CapTerminatesWithDone ==
    (chat.pc # "idle" /\ chat.allTools) =>
        /\ chat.modelCalls - 1 <= IterationCap
        /\ chat.ended => (Len(chat.events) > 0 /\ Last(chat.events).type = "done")

ChatResponded == chat.pc = "call_model" /\ memory' # memory
ChatResponse == Last(memory'[chat.threadId])

C9_FailedTurnLeavesNoTrace ==
    (chat.ended /\ chat.failed) => memory[chat.threadId] = chat.before

\* C10: when the insert of the turn fails, the stream gets `done` and nothing
\* else: no `error` event, the events already written stay as they were, and
\* the request ends as a success.
C10_InsertFailureOnlyLogged ==
    /\ [](agent.insertError =>
            /\ agent.ended /\ ~agent.failed
            /\ "error" \notin Types(agent.events)
            /\ Last(agent.events).type = "done")
    /\ [][(agent.pc = "save" /\ agent'.insertError) =>
            /\ agent'.events = Append(agent.events, Event("done", "totalTimeMs"))
            /\ conversations' = conversations]_vars

\* an insert failed after an answer and a tool result had been streamed
C10_Witness ==
    /\ agent.insertError /\ agent.ended
    /\ {"message", "vector_search"} \subseteq Types(agent.events)

Roles(messages) == {messages[i].role : i \in 1..Len(messages)}

\* C11: the retrieval context message of a turn is not part of the stored
\* state of its thread: a turn that starts when no other turn is running finds
\* no context message in the messages it is given.
C11_AugmentationIsEphemeral ==
    \A s \in RouteSlots :
        (/\ route[s].pc = "analyze_query"
         /\ \A o \in RouteSlots \ {s} : route[o].pc \in {"idle", "done", "error"})
        => "system" \notin Roles(route[s].messages)

\* C12: the retriever is queried only in a run whose own routing decision is
\* `retrieval`, and a context message it yields stands right after the run's
\* user message when the model is called.
C12_AugmentorOnlyWhenRoutedToRetrieval ==
    \A s \in RouteSlots :
        /\ (route[s].pc = "retrieving" \/ route[s].retrieved # "no") =>
               route[s].own = "retrieval"
        /\ (route[s].augmented /\ route[s].pc = "call_model") =>
               LET m == route[s].messages
               IN  /\ Len(m) >= 2
                   /\ m[Len(m)].role = "system"
                   /\ m[Len(m) - 1].role = "user"

\* C13: a retrieval that finds zero documents adds no message to the run's
\* context or to the stored state, is no failure of the run, and is followed
\* by the model call.
C13_ZeroDocumentsNoAugmentation ==
    /\ [](\A s \in RouteSlots :
            route[s].retrieved = "none" =>
                /\ ~route[s].augmented
                /\ route[s].failed \in {"no", "call_model"}
                /\ route[s].pc \in {"call_model", "done", "error"}
                /\ route[s].pc = "call_model" => Last(route[s].messages).role = "user")
    /\ [][\A s \in RouteSlots :
            (route[s].retrieved = "no" /\ route'[s].retrieved = "none") =>
                /\ route'[s].messages = route[s].messages
                /\ routeMemory'[route[s].threadId] = route[s].messages
                /\ route'[s].pc = "call_model"
                /\ route'[s].failed = "no"]_vars

\* a run routed to retrieval found zero documents and was answered
C13_Witness ==
    \E s \in RouteSlots :
        /\ route[s].own = "retrieval" /\ route[s].retrieved = "none"
        /\ route[s].pc = "done" /\ Last(route[s].messages).role = "assistant"

\* C14: when the tools of a cycle threw, the turn goes on to the next model
\* call with a tool message that carries the error, and the stream carries a
\* tool result event (`tool_end`, or ChatService's `tool`) with that payload.
C14_ToolErrorIsRelayed ==
    (chat.pc = "call_model" /\ chat.from = "tools" /\ env.result = "Error") =>
        /\ ~chat.failed /\ ~chat.ended
        /\ Last(memory[chat.threadId]).role = "tool"
        /\ Last(memory[chat.threadId]).content = "Error"
        /\ \E i \in 1..Len(chat.events) :
              /\ chat.events[i].type \in {"tool_end", "tool"}
              /\ chat.events[i].data = "Error"

ToolResultEvents == {"tool", "tool_end"}

\* C15: in the stream of a turn that succeeded, every tool result event has
\* its own `tool_start` event before it, the last `message` event comes after
\* every tool result event, and `done` comes after that `message`.
C15_ToolStartBeforeToolEnd ==
    (chat.ended /\ ~chat.failed) =>
        LET e == chat.events
            Count(types, i) == Cardinality({j \in 1..i : e[j].type \in types})
            results == {i \in 1..Len(e) : e[i].type \in ToolResultEvents}
            messages == {i \in 1..Len(e) : e[i].type = "message"}
        IN  /\ \A i \in results : Count({"tool_start"}, i) >= Count(ToolResultEvents, i)
            /\ \A i \in results : \E m \in messages : m > i
            /\ Len(e) > 0 /\ Last(e).type = "done"
            /\ \A m \in messages : m < Len(e)

IsNonDecreasing(rows) ==
    \A i, j \in 1..Len(rows) : i < j => rows[i].created_at <= rows[j].created_at

\* the rows of a sequence taken as a bag
Occurrences(rows, r) == Cardinality({i \in 1..Len(rows) : rows[i] = r})

\* C16: the history load always hands the turn over to the agent: the rows it
\* returns are none (a thread without rows, or a fetch that failed) or all the
\* rows of the thread in non-decreasing created_at order, and the context is
\* the system message, those rows' messages in that order, and the user message.
C16_HistoryLoadNeverFails ==
    [][(agent.pc = "load" /\ agent'.pc # "load") =>
          LET stored == SelectSeq(conversations, LAMBDA r : r.thread_id = agent.threadId)
              data == agent'.data
              context == agent'.context
          IN  /\ agent'.pc = "agent" /\ ~agent'.failed /\ ~agent'.ended
              /\ agent'.events = <<>>
              /\ stored = <<>> => data = <<>>
              /\ data = <<>> \/ (/\ Len(data) = Len(stored)
                                 /\ \A i \in 1..Len(stored) :
                                       Occurrences(data, stored[i]) =
                                       Occurrences(stored, stored[i]))
              /\ IsNonDecreasing(data)
              /\ Len(context) = Len(data) + 2
              /\ context[1] = systemMessage
              /\ \A i \in 1..Len(data) :
                    /\ context[i + 1].role = data[i].role
                    /\ context[i + 1].content = data[i].content
              /\ Last(context) = HumanMessage(agent.message)
       ]_vars

\* the history of a thread with the rows of two turns was loaded, a tool
\* message among them
C16_Witness ==
    /\ agent.pc = "agent" /\ Len(agent.data) >= 5
    /\ agent.data[1].created_at < Last(agent.data).created_at
    /\ \E i \in 1..Len(agent.data) : agent.data[i].role = "tool"

IsPrefix(s, t) == Len(s) <= Len(t) /\ SubSeq(t, 1, Len(s)) = s

\* C17: the stored messages of a thread only grow, and only in steps of a turn
\* made with that thread's id: the context of a turn on T holds what the
\* earlier turns on T left and nothing written by a turn on another thread.
C17_ContextPerThread ==
    /\ [](chat.pc # "idle" => IsPrefix(chat.before, memory[chat.threadId]))
    /\ [][\A t \in Threads :
            /\ IsPrefix(memory[t], memory'[t])
            /\ memory'[t] # memory[t] => (chat'.pc # "idle" /\ chat'.threadId = t)]_vars

\* a turn on t1 started from an empty context and was answered while thread
\* t2 held the messages of an earlier turn
C17_Witness ==
    /\ chat.pc = "closed" /\ ~chat.failed /\ chat.threadId = "t1"
    /\ chat.before = <<>>
    /\ Len(memory["t2"]) >= 2

C19_EveryRequestCloses ==
    (chat.pc # "idle" /\ ~chat.ended) ~> chat.ended

\* C20: once the client of a running turn has disconnected, the turn starts
\* no tool dispatch and no further model call, and writes no event.
C20_DisconnectStopsTheTurn ==
    [][(~chat.connected /\ ~chat'.connected) =>
          /\ chat'.pc \in {chat.pc, "closed"}
          /\ chat'.events = chat.events]_vars

\* C21: two turns served concurrently on one thread are serialized: the rows
\* each of them appended are a contiguous block of the thread's rows, and the
\* turn that appended second had loaded a history that holds the rows of the
\* turn that appended first.
C21_TurnsOfAThreadAreSerialized ==
    \A s \in RequestSlots, r \in RequestSlots :
        LET first == requests[s]
            second == requests[r]
        IN  (/\ first.pc = "closed" /\ second.pc = "closed"
             /\ first.threadId = second.threadId
             /\ 0 < first.upto /\ first.upto < second.upto)
            => /\ first.upto < second.from
               /\ Len(second.data) >= first.upto

\* the tool calls of messages that no later tool message answers
Unanswered(messages) ==
    {<<i, j>> \in (1..Len(messages)) \X (1..MaxCalls) :
        /\ j <= Len(messages[i].tool_calls)
        /\ ~\E k \in (i + 1)..Len(messages) :
              /\ messages[k].role = "tool"
              /\ messages[k].tool_call_id = messages[i].tool_calls[j].id}

Conforms(tool, input) ==
    IF tool = "table_tool"
    THEN /\ \A i \in 1..Len(input.headers) : input.headers[i].type = "string"
         /\ \A i \in 1..Len(input.rows) : \A j \in 1..Len(input.rows[i]) :
               input.rows[i][j].type = "string"
    ELSE /\ input.query.type = "string"
         /\ input.limit.type \in {"undefined", "number"}
         /\ input.limit.type = "number" => input.limit.number \in 1..30

\* C23: a tool's function is called only with arguments that pass the tool's
\* input schema; when they do not, the function is not called and the
\* invocation fails with a validation error.
C23_FunctionCalledOnlyWithValidArguments ==
    /\ invocation.called =>
          Conforms(invocation.tool, invocation.input) /\ Conforms(invocation.tool, invocation.args)
    /\ (invocation.pc \notin {"idle", "requested"}
        /\ ~Conforms(invocation.tool, invocation.input))
       => /\ ~invocation.called
          /\ invocation.error = "ToolInputParsingException"
          /\ invocation.output = <<>>

C23_Witness ==
    /\ invocation.pc = "relayed"
    /\ invocation.tool = "table_tool"
    /\ ~Conforms(invocation.tool, invocation.input)
    /\ ~invocation.called
    /\ invocation.error = "ToolInputParsingException"

\* C24: in every graph the tools bound to the model at a model call are the
\* tools the graph's tool node can resolve: every tool the model can request
\* is registered, and every registered tool can be requested.
C24_BoundToolsAreTheNodeTools ==
    \A graph \in Graphs : BoundTools(graph) = NodeTools(graph)

\* C25: on every turn of a thread the context the model is called with is the
\* history loaded from the table followed by the new user message (after the
\* system message), so each earlier message of the thread is in it once.
\* Stated for the turns of a thread that has rows in the table.
C25_ContextIsHistoryThenUserMessage ==
    (agent.pc = "agent" /\ agent.modelCalls = 0 /\ agent.data # <<>>)
    => agentCheckpointer[ThreadKey(agent.threadId)]
         = <<systemMessage>> \o LoadHistory(agent.data) \o <<HumanMessage(agent.message)>>

\* the rows the turn that just closed added to the table
AddedRows == SubSeq(conversations, Len(agent.before) + 1, Len(conversations))

C27_MessageThenAppendThenDone ==
    (agent.pc = "closed" /\ ~agent.failed)
    => /\ "message" \in Types(agent.events)
       /\ conversations # agent.before \/ agent.insertError
       /\ Last(agent.events).type = "done"

\* C27 (amended): done is written only after the append attempt has returned,
\* the turn is appended in one batch after every message event of the turn,
\* and done is the next frame after it; a turn with a thread id always
\* attempts the append, a turn without one appends nothing.
C27_DoneOnlyAfterTheAppendReturned ==
    /\ [](/\ agent.pc \in {"load", "agent", "tools", "save"} =>
                "done" \notin Types(agent.events)
          /\ (agent.pc = "closed" /\ ~agent.failed) =>
                /\ Last(agent.events).type = "done"
                /\ agent.threadId # "" => (conversations # agent.before \/ agent.insertError)
                /\ agent.threadId = "" => conversations = agent.before
                /\ agent.finalAssistantMessage # "" =>
                      \E i \in 1..Len(agent.events) :
                          agent.events[i] = Event("message", agent.finalAssistantMessage))
    /\ [][conversations' # conversations =>
            /\ agent.pc = "save" /\ agent'.pc = "closed"
            /\ conversations' = conversations \o
                  Insert(<<>>, ItemsToInsert(MessagesToSave(agent.message,
                                                            agent.toolCallHistory,
                                                            agent.finalAssistantMessage),
                                             agent.threadId), Now)
            /\ agent'.events = agent.events \o <<Event("done", "totalTimeMs")>>]_vars

C27_Witness ==
    /\ agent.pc = "closed" /\ ~agent.failed /\ agent.threadId # ""
    /\ conversations # agent.before
    /\ Len(agent.events) >= 2
    /\ agent.events[Len(agent.events) - 1].type = "message"
    /\ Last(agent.events).type = "done"

\* the messages the nodes of the running turn have added to the state of its
\* thread, after the turn's input
TurnMessages ==
    SubSeq(agentCheckpointer[ThreadKey(agent.threadId)],
           Len(agent.checkpointBefore) + Len(agent.context) + 1,
           Len(agentCheckpointer[ThreadKey(agent.threadId)]))

\* C28: each tool result AgentService.chat relays makes exactly one event,
\* of type public_tender_list for public_tender_search, vector_search for
\* vector_search and tool_end for every other tool, its data the content of
\* the tool's message: the tool events of a turn are, in order, those of the
\* turn's tool messages that have a name and a content.
C28_OneTypedEventPerToolResult ==
    agent.pc # "idle" =>
        LET results == SelectSeq(TurnMessages,
                                 LAMBDA m : m.role = "tool" /\ m.name # "" /\ m.content # "")
            relayed == SelectSeq(agent.events,
                                 LAMBDA e : e.type \in {"public_tender_list", "vector_search",
                                                        "tool_end"})
            type(name) == CASE name = "public_tender_search" -> "public_tender_list"
                            [] name = "vector_search" -> "vector_search"
                            [] OTHER -> "tool_end"
        IN  relayed = [i \in 1..Len(results) |->
                          [type |-> type(results[i].name), data |-> results[i].content]]

C28_Witness ==
    /\ agent.pc = "closed" /\ ~agent.failed
    /\ env.calls = 2
    /\ \E i \in 1..Len(agent.events) :
          /\ i + 1 <= Len(agent.events)
          /\ agent.events[i] = [type |-> "public_tender_list", data |-> "result"]
          /\ agent.events[i + 1] = [type |-> "public_tender_list", data |-> "result"]

\* JSON.parse of the text of an array of strings that opens at token i:
\* the strings, and the place after the closing bracket
RECURSIVE ParseStrings(_, _, _)
ParseStrings(tokens, i, strings) ==
    IF tokens[i].kind = "punct" /\ tokens[i].text = "]"
    THEN [value |-> strings, next |-> i + 1]
    ELSE IF tokens[i].kind = "punct"
         THEN ParseStrings(tokens, i + 1, strings)
         ELSE ParseStrings(tokens, i + 1, Append(strings, tokens[i].text))

\* JSON.parse of the text of an array of arrays of strings, i after its
\* opening bracket
RECURSIVE ParseRows(_, _, _)
ParseRows(tokens, i, rows) ==
    IF tokens[i].kind = "punct" /\ tokens[i].text = "]"
    THEN [value |-> rows, next |-> i + 1]
    ELSE IF tokens[i].kind = "punct" /\ tokens[i].text = "["
         THEN LET row == ParseStrings(tokens, i + 1, <<>>)
              IN  ParseRows(tokens, row.next, Append(rows, row.value))
         ELSE ParseRows(tokens, i + 1, rows)

\* the place of the value of a key in a JSON text
ValueOf(tokens, key) ==
    2 + CHOOSE i \in 1..Len(tokens) :
            /\ tokens[i].kind = "string" /\ tokens[i].text = key
            /\ tokens[i + 1].kind = "punct" /\ tokens[i + 1].text = ":"

\* JSON.parse of the text of {dataTable: {headers, rows}}
ParseTable(tokens) ==
    [dataTable |->
        [headers |-> ParseStrings(tokens, ValueOf(tokens, "headers") + 1, <<>>).value,
         rows |-> ParseRows(tokens, ValueOf(tokens, "rows") + 1, <<>>).value]]

\* the table a frame's data carries: the data is the table's JSON text, or
\* the JSON text of a tool message whose content is the table's JSON text
CarriedTable(data) ==
    IF data[2].text = "dataTable" THEN ParseTable(data)
    ELSE ParseTable(data[ValueOf(data, "content")].json)

Texts(values) == [i \in 1..Len(values) |-> values[i].text]

\* C29: for any valid input {headers, rows} table_tool returns exactly
\* {dataTable: {headers, rows}}, the headers and the rows those of the input
\* in the input's order, and the one tool event written for the call carries
\* that table.
C29_TableToolReturnsItsInput ==
    (/\ invocation.pc = "relayed" /\ invocation.tool = "table_tool"
     /\ Conforms(invocation.tool, invocation.input))
    => /\ invocation.called
       /\ invocation.output = [dataTable |-> [headers |-> invocation.input.headers,
                                              rows |-> invocation.input.rows]]
       /\ Len(invocation.frames) = 1
       /\ invocation.frames[1].type = "tool"
       /\ CarriedTable(invocation.frames[1].data)
            = [dataTable |->
                  [headers |-> Texts(invocation.input.headers),
                   rows |-> [i \in 1..Len(invocation.input.rows) |->
                                Texts(invocation.input.rows[i])]]]

C29_Witness ==
    /\ invocation.pc = "relayed" /\ invocation.tool = "table_tool"
    /\ invocation.wrapped
    /\ invocation.input = [headers |-> <<Str("a"), Str("b")>>,
                           rows |-> << <<Str("a")>>, <<Str("b")>> >>]
    /\ Len(invocation.frames) = 1

\* C30: the system prompt of every model call has the timestamp in the place
\* of the {system_time} placeholder and holds no {system_time} marker any
\* more, whatever template is configured.
C30_NoMarkerLeftInThePrompt ==
    prompt.pc = "called" =>
        /\ \A i \in 1..Len(prompt.sys) : prompt.sys[i] # "{system_time}"
        /\ Len(prompt.sys) = Len(ensureConfiguration(prompt.configurable).systemPromptTemplate)
        /\ \A i \in 1..Len(prompt.sys) :
              prompt.sys[i] =
                 IF ensureConfiguration(prompt.configurable).systemPromptTemplate[i] = "{system_time}"
                 THEN prompt.time
                 ELSE ensureConfiguration(prompt.configurable).systemPromptTemplate[i]

\* C31: requests without a threadId are isolated from one another: the
\* context the model is called with in a thread-less turn is the turn's own
\* input, and holds no message of an earlier thread-less request.
C31_ThreadlessTurnsAreIsolated ==
    (agent.pc = "agent" /\ agent.threadId = "" /\ agent.modelCalls = 0)
    => agentCheckpointer[ThreadKey(agent.threadId)] = agent.context

\* C32: the response of a request is ended once, and nothing is written to
\* it (no event, header or body) after it has been ended, in the service and
\* in the controller that called it.
C32_NothingWrittenAfterTheEnd ==
    /\ agent.afterEnd = <<>>
    /\ agent.ended =>
          /\ agent.pc = "closed"
          /\ Last(agent.events).type = "done"
          /\ Len(SelectSeq(agent.events, LAMBDA e : e.type = "done")) = 1

\* C33: when turns run one at a time, retrieveRelevantDocs reads the routing
\* decision that analyzeQuery wrote in the same turn: the decision an earlier
\* turn left in the router never gates the retrieval of a later turn.
C33_SerialTurnsReadTheirOwnDecision ==
    \A s \in RouteSlots :
        /\ route[s].read # "none" => route[s].read = route[s].own
        /\ route[s].pc = "retrieve_context" => currentRouter = route[s].own
        /\ route[s].pc = "retrieving" => route[s].own = "retrieval"

C33_Witness ==
    /\ turns = 2
    /\ route[1].pc = "done" /\ route[1].own = "retrieval" /\ route[1].read = "retrieval"
    /\ route[2].pc = "call_model" /\ route[2].own = "general" /\ route[2].read = "general"

\* the augmentation messages among the messages of a run
Augmentations(messages) ==
    Len(SelectSeq(messages, LAMBDA m : m.role = "system" /\ m.content = "context"))

\* the state of a run that is back at analyze_query after a tool dispatch
AfterToolDispatch(messages) ==
    messages \o <<AIMessage("", <<[id |-> 1, name |-> "table_tool"]>>),
                  ToolMessage("result", 1, "table_tool")>>

C35_RetrievalFailureIsNotFatal ==
    [][\A s \in RouteSlots :
          (route[s].pc = "retrieving" /\ route'[s] # route[s] /\ route'[s].retrieved = "throws")
          => /\ route'[s].pc = "call_model"
             /\ route'[s].messages = route[s].messages
             /\ routeMemory'[route[s].threadId] = route[s].messages
             /\ ~route'[s].augmented
             /\ route'[s].failed = "no"]_vars

C35_Witness ==
    \E s \in RouteSlots :
        /\ route[s].pc = "done" /\ route[s].retrieved = "throws"
        /\ route[s].failed = "no"
        /\ Augmentations(route[s].messages) = 0
        /\ Last(route[s].messages).role = "assistant"

\* a table whose thread t1 starts with a row of role system (part_007:211-212
\* reads such rows), followed by a completed turn
StoredSystemTurn(threadId) ==
    Insert(<<>>,
           <<Row(threadId, "system", "system prompt", "", 0)>>
           \o ItemsToInsert(MessagesToSave("q", <<>>, "text"), threadId), 0)

\* AgentService started on a table that is empty, holds a turn of thread t1, or
\* holds a thread t1 that starts with a system row
InitAgentStored ==
    /\ env \in {e \in Envs({"vector_search"}, AgentToolSets) :
                  /\ ~e.reversed /\ e.calls = 1 /\ e.result = "result" /\ ~e.chatty}
    /\ budget = MaxAgentModelCalls
    /\ turns = 0
    /\ faults = MaxFaults
    /\ nextId = 1
    /\ memory = [t \in Threads |-> <<>>]
    /\ chat = IdleChat
    /\ conversations \in {<<>>, EarlierTurn("t1"), StoredSystemTurn("t1")}
    /\ agentCheckpointer = [t \in AgentThreadKeys |-> <<>>]
    /\ agent = IdleAgent
    /\ currentRouter = "general"
    /\ routeMemory = [t \in Threads |-> <<>>]
    /\ route = [s \in RouteSlots |-> IdleRoute]
    /\ requests = [s \in RequestSlots |-> IdleRequest]
    /\ invocation = IdleInvocation
    /\ prompt = IdlePrompt
    /\ httpResponse = IdleResponse
    /\ executor = IdleExecutor
    /\ search = IdleSearch

SpecAgentStored == InitAgentStored /\ [][NextAgentPlain]_vars

\* C36: the messages AgentService.chat hands to the agent start with a system
\* message and end with the new user message; the default system message is
\* in front of the loaded history exactly when that history is empty or does
\* not start with a system message; and no row a turn appends to the
\* conversations table has the role system.
C36_InputStartsWithSystemEndsWithUser ==
    /\ agent.pc \notin {"idle", "load"} =>
         LET loaded == LoadHistory(agent.data)
             human == <<HumanMessage(agent.message)>>
             needed == Len(loaded) = 0 \/ loaded[1].role # "system"
         IN  /\ agent.context[1].role = "system"
             /\ Last(agent.context) = HumanMessage(agent.message)
             /\ needed => agent.context = <<systemMessage>> \o loaded \o human
             /\ ~needed => agent.context = loaded \o human
    /\ agent.pc = "closed" =>
         \A i \in 1..Len(AddedRows) : AddedRows[i].role # "system"

C36_Witness ==
    /\ agent.pc = "closed" /\ ~agent.failed /\ ~agent.insertError
    /\ agent.data # <<>> /\ agent.data[1].role = "system"
    /\ agent.context = LoadHistory(agent.data) \o <<HumanMessage(agent.message)>>
    /\ AddedRows # <<>>

\* the text between "data: " and the blank line that ends the frame
FramePayload(text) == SubSeq(text, 5, Len(text) - 2)

FrameTypes == {"message", "tool_start", "tool", "error", "done"}

WellFormedFrame(text) ==
    /\ Len(text) >= 6
    /\ SubSeq(text, 1, 4) \in {<<"event: ", type, LF, "data: ">> : type \in FrameTypes}
    /\ SubSeq(text, Len(text) - 1, Len(text)) = <<LF, LF>>
    /\ \A i \in 1..Len(FramePayload(text)) : FramePayload(text)[i] # LF

\* C37: every frame ChatService.chat writes, whatever its event type, is an
\* event line and one data line: no line feed inside the data payload.
C37_FramesAreSingleLine ==
    \A i \in 1..Len(httpResponse.written) : WellFormedFrame(httpResponse.written[i])

\* C38: a call of javascript_executor never throws; when the user code raised
\* a runtime error or the run hit the timeout, the result is a text that
\* begins with the console.log lines captured during the run.
C38_ErrorsAreReturnedAfterTheLogs ==
    executor.pc = "done" =>
        /\ ~executor.threw
        /\ executor.result # <<>>
        /\ (~executor.code.syntaxError
            /\ executor.code.outcome \in {"throws", "throwsNull", "loops"})
           => IsPrefix(JoinedLogs(executor.logs), executor.result)

\* the JSON objects whose text the input is and that hold a string `query`
QueryObjects(input) ==
    {v \in JsonObjects :
        /\ JsonText(v) = input
        /\ HasKey(v, "query") /\ Property(v, "query").type = "string"}

\* C39: when the input is the text of a JSON object with a string query,
\* vector_search searches for that query with the object's numeric k, or 5;
\* for every other input it searches for the input itself with k 5; a failed
\* search is answered with a text that starts with "Error: " and nothing is
\* thrown.
C39_InputIsResolvedDeterministically ==
    /\ search.pc # "idle" =>
         IF QueryObjects(search.input) # {}
         THEN \A v \in QueryObjects(search.input) :
                /\ search.query = <<Word(Property(v, "query").text)>>
                /\ search.k = IF HasKey(v, "k") /\ Property(v, "k").type = "number"
                              THEN Property(v, "k").number ELSE 5
         ELSE search.query = search.input /\ search.k = 5
    /\ search.pc = "done" =>
         /\ ~search.threw
         /\ search.outcome # "found" => Head(search.output) = "Error: "

C39_Witness ==
    /\ search.pc = "done" /\ search.outcome = "throwsError"
    /\ search.input =
         JsonText(JsonValue("object", "", 0,
                            <<[key |-> "query", value |-> JsonValue("string", "q", 0, <<>>)],
                              [key |-> "k", value |-> JsonValue("number", "", 3, <<>>)]>>))
    /\ search.query = <<Word("q")>> /\ search.k = 3
    /\ search.output = <<"Error: ", "search failed">>
====
